---------------------------- MODULE Spec2Model ----------------------------
(***************************************************************************)
(* A model of the serialization core of apache/fory (C++):                 *)
(*   - Buffer (cpp/fory/util/buffer.h): varint codecs, safe reads, refill   *)
(*   - ForyInputStreamBuf (cpp/fory/util/stream.h): the stream a Buffer     *)
(*     refills from                                                         *)
(*   - WriteContext / ReadContext (cpp/fory/serialization/context.cc):      *)
(*     the streaming TypeMeta protocol                                      *)
(*                                                                         *)
(* Machine words.  TLC's integers are 32-bit, so a uint32/uint64/int64 of   *)
(* the program is modelled as the set of the positions of its 1 bits        *)
(* (a subset of 0..63).  Bitwise operations are then set operations, done   *)
(* exactly as the code does them; a byte of memory is an integer 0..255.    *)
(***************************************************************************)
EXTENDS Integers, Sequences, FiniteSets, TLC

VARIABLES
    codec,   \* the last put/get or write/read pair applied to a scratch Buffer
    wctx,    \* WriteContext: the streaming TypeMeta fields and its buffer
    wobs,    \* what the write side has emitted in the current message
    rctx,    \* ReadContext: reading_type_infos, the caches and its buffer
    robs,    \* what the read side has returned in the current message
    sio      \* a stream-backed Buffer and an in-memory Buffer over the same bytes

vars == <<codec, wctx, wobs, rctx, robs, sio>>

-----------------------------------------------------------------------------
(* Words as sets of bit positions *)

Bits(w) == 0 .. (w - 1)

BAnd(a, b) == a \cap b
BOr(a, b) == a \cup b
BXor(a, b) == (a \ b) \cup (b \ a)
BNot(a, w) == Bits(w) \ a

\* x << k in a w-bit unsigned type
Shl(a, k, w) == {i + k : i \in a} \cap Bits(w)
\* x >> k, logical
Shr(a, k) == {i - k : i \in {j \in a : j >= k}}
\* x >> k on a signed w-bit value (arithmetic shift)
Sar(a, k, w) == Shr(a, k) \cup (IF (w - 1) \in a THEN (w - k) .. (w - 1) ELSE {})
\* static_cast to a w-bit unsigned type
Trunc(a, w) == a \cap Bits(w)
\* x < 2^k
LtPow2(a, k) == \A i \in a : i < k

MaxBit(a) == CHOOSE i \in a : \A j \in a : j <= i
\* number of significant bits
BitLen(a) == IF a = {} THEN 0 ELSE MaxBit(a) + 1

\* a + b in a w-bit unsigned type: bit i of the sum is a_i xor b_i xor the
\* carry into i, and a carry enters i when some lower position generates one
\* (both bits set) and every position in between propagates it (a bit set)
CarryInto(g, p, i) ==
    \E j \in g : j < i /\ \A k \in (j + 1) .. (i - 1) : k \in p
BAdd(a, b, w) ==
    LET g == a \cap b
        p == a \cup b
    IN  IF g = {} THEN Trunc(p, w)
        ELSE {i \in Trunc(p \cup {k + 1 : k \in p}, w) :
                 ((i \in a) # (i \in b)) # CarryInto(g, p, i)}

\* unsigned a <= b
BLeq(a, b) == a = b \/ (BXor(a, b) # {} /\ MaxBit(BXor(a, b)) \in b)

\* byte i (little-endian) of a word, as an integer 0..255
ByteAt(a, i) ==
      (IF 8 * i     \in a THEN 1   ELSE 0) + (IF 8 * i + 1 \in a THEN 2   ELSE 0)
    + (IF 8 * i + 2 \in a THEN 4   ELSE 0) + (IF 8 * i + 3 \in a THEN 8   ELSE 0)
    + (IF 8 * i + 4 \in a THEN 16  ELSE 0) + (IF 8 * i + 5 \in a THEN 32  ELSE 0)
    + (IF 8 * i + 6 \in a THEN 64  ELSE 0) + (IF 8 * i + 7 \in a THEN 128 ELSE 0)
\* a natural number below 2^31 as a word, and back
FromNat(n) ==
    IF n < 256 THEN {k \in 0 .. 7 : (n \div (2 ^ k)) % 2 = 1}
    ELSE {k \in 0 .. 30 : (n \div (2 ^ k)) % 2 = 1}
ToNat(a) ==
    IF a = {} THEN 0
    ELSE IF \A i \in a : i < 8 THEN ByteAt(a, 0)
    ELSE ByteAt(a, 0) + 256 * ByteAt(a, 1) + 65536 * ByteAt(a, 2) + 16777216 * ByteAt(a, 3)

\* an integer 0..255 as a word
ByteBits(b) == {k \in 0 .. 7 : (b \div (2 ^ k)) % 2 = 1}

\* memory: a sequence of bytes; the byte at offset o is data[o + 1]
\* *reinterpret_cast<T *>(data_ + offset) = v, sizeof(T) = n
StoreLE(data, offset, v, n) ==
    [i \in 1 .. Len(data) |->
        IF (i - 1) \in offset .. (offset + n - 1) THEN ByteAt(v, i - 1 - offset) ELSE data[i]]
\* *reinterpret_cast<T *>(data_ + offset), sizeof(T) = n
LoadLE(data, offset, n) ==
    UNION {{8 * j + k : k \in ByteBits(data[offset + j + 1])} : j \in 0 .. (n - 1)}


-----------------------------------------------------------------------------
(* Hexadecimal masks of buffer.h, as words *)

X7F == 0 .. 6                \* 0x7F
X3F80 == 7 .. 13             \* 0x3F80
X1FC000 == 14 .. 20          \* 0x1FC000
XFE00000 == 21 .. 27         \* 0xFE00000
X7F0000000 == 28 .. 34       \* 0x7F0000000ULL
X3F800000000 == 35 .. 41     \* 0x3F800000000ULL
X1FC0000000000 == 42 .. 48   \* 0x1FC0000000000ULL
XFE000000000000 == 49 .. 55  \* 0xFE000000000000ULL
XFF0000000 == 28 .. 35       \* 0xFF0000000ULL

-----------------------------------------------------------------------------
(* Buffer::put_var_uint32 / get_var_uint32 / read_var_uint32_slow(offset)   *)
(* A result of put is [data, len, stored]: the memory after the store, the   *)
(* returned length and the width in bytes of the word that was stored.       *)

put_var_uint32_mut(data, offset, value) ==
    \* a bug: the 3-byte form selected up to 2^22 instead of 2^21
    IF LtPow2(value, 7) THEN
        [data |-> StoreLE(data, offset, value, 1), len |-> 1, stored |-> 1]
    ELSE LET e1 == BOr(BOr(BAnd(value, X7F), {7}), Shl(BAnd(value, X3F80), 1, 64))
             e2 == BOr(e1, BOr(Shl(BAnd(value, X1FC000), 2, 64), {15}))
             e3 == BOr(e2, BOr(Shl(BAnd(value, XFE00000), 3, 64), {23}))
             e4 == BOr(e3, BOr(Shl(Shr(value, 28), 32, 64), {31}))
         IN  IF LtPow2(value, 14) THEN
                 [data |-> StoreLE(data, offset, Trunc(e1, 16), 2), len |-> 2, stored |-> 2]
             ELSE IF LtPow2(value, 22) THEN
                 [data |-> StoreLE(data, offset, Trunc(e2, 32), 4), len |-> 3, stored |-> 4]
             ELSE IF LtPow2(value, 28) THEN
                 [data |-> StoreLE(data, offset, Trunc(e3, 32), 4), len |-> 4, stored |-> 4]
             ELSE
                 [data |-> StoreLE(data, offset, e4, 8), len |-> 5, stored |-> 8]

put_var_uint32(data, offset, value) ==
    IF LtPow2(value, 7) THEN
        [data |-> StoreLE(data, offset, value, 1), len |-> 1, stored |-> 1]
    ELSE LET e1 == BOr(BOr(BAnd(value, X7F), {7}), Shl(BAnd(value, X3F80), 1, 64))
             e2 == BOr(e1, BOr(Shl(BAnd(value, X1FC000), 2, 64), {15}))
             e3 == BOr(e2, BOr(Shl(BAnd(value, XFE00000), 3, 64), {23}))
             e4 == BOr(e3, BOr(Shl(Shr(value, 28), 32, 64), {31}))
         IN  IF LtPow2(value, 14) THEN
                 [data |-> StoreLE(data, offset, Trunc(e1, 16), 2), len |-> 2, stored |-> 2]
             ELSE IF LtPow2(value, 21) THEN
                 [data |-> StoreLE(data, offset, Trunc(e2, 32), 4), len |-> 3, stored |-> 4]
             ELSE IF LtPow2(value, 28) THEN
                 [data |-> StoreLE(data, offset, Trunc(e3, 32), 4), len |-> 4, stored |-> 4]
             ELSE
                 [data |-> StoreLE(data, offset, e4, 8), len |-> 5, stored |-> 8]

\* read_var_uint32_slow(offset, read_bytes_length): byte i (0-based) at `position`
RECURSIVE var_uint32_slow_from(_, _, _, _, _, _)
var_uint32_slow_from(data, size, offset, position, i, result) ==
    IF position >= size THEN [val |-> {}, len |-> 0]
    ELSE LET b == ByteBits(data[position + 1])
             r == BOr(result, Shl(BAnd(b, X7F), 7 * i, 32))
         IN  IF 7 \in b /\ i < 4
             THEN var_uint32_slow_from(data, size, offset, position + 1, i + 1, r)
             ELSE [val |-> r, len |-> position + 1 - offset]

read_var_uint32_slow_at(data, size, offset) ==
    IF offset >= size THEN [val |-> {}, len |-> 0]
    ELSE var_uint32_slow_from(data, size, offset, offset, 0, {})

\* the bulk decoding of a uint32 loaded at `offset`; byte5 is data_[offset + 4]
var_uint32_bulk(bulk, byte5) ==
    LET r1 == BAnd(bulk, X7F)
        r2 == BOr(r1, BAnd(Shr(bulk, 1), X3F80))
        r3 == BOr(r2, BAnd(Shr(bulk, 2), X1FC000))
        r4 == BOr(r3, BAnd(Shr(bulk, 3), XFE00000))
        r5 == BOr(r4, Shl(BAnd(ByteBits(byte5), X7F), 28, 32))
    IN  IF 7 \notin bulk THEN [val |-> r1, len |-> 1]
        ELSE IF 15 \notin bulk THEN [val |-> r2, len |-> 2]
        ELSE IF 23 \notin bulk THEN [val |-> r3, len |-> 3]
        ELSE IF 31 \notin bulk THEN [val |-> r4, len |-> 4]
        ELSE [val |-> r5, len |-> 5]

get_var_uint32(data, size, offset) ==
    IF offset >= size THEN [val |-> {}, len |-> 0]
    ELSE IF size - offset >= 5
         THEN var_uint32_bulk(LoadLE(data, offset, 4), data[offset + 5])
         ELSE read_var_uint32_slow_at(data, size, offset)

-----------------------------------------------------------------------------
(* Buffer::put_var_uint64 / get_var_uint64 / get_var_uint64_slow *)

put_var_uint64_mut(data, offset, value) ==
    \* a bug: the 9-byte form selected from 2^55 on, its last byte still value >> 56
    IF LtPow2(value, 7) THEN
        [data |-> StoreLE(data, offset, value, 1), len |-> 1, stored |-> 1]
    ELSE LET e1 == BOr(BOr(BAnd(value, X7F), {7}), Shl(BAnd(value, X3F80), 1, 64))
             e2 == BOr(e1, BOr(Shl(BAnd(value, X1FC000), 2, 64), {15}))
             e3 == BOr(e2, BOr(Shl(BAnd(value, XFE00000), 3, 64), {23}))
             e4 == BOr(e3, BOr(Shl(BAnd(value, X7F0000000), 4, 64), {31}))
             e5 == BOr(e4, BOr(Shl(BAnd(value, X3F800000000), 5, 64), {39}))
             e6 == BOr(e5, BOr(Shl(BAnd(value, X1FC0000000000), 6, 64), {47}))
             e7 == BOr(e6, BOr(Shl(BAnd(value, XFE000000000000), 7, 64), {55}))
             e8 == BOr(e7, {63})
         IN  IF LtPow2(value, 14) THEN
                 [data |-> StoreLE(data, offset, Trunc(e1, 16), 2), len |-> 2, stored |-> 2]
             ELSE IF LtPow2(value, 21) THEN
                 [data |-> StoreLE(data, offset, Trunc(e2, 32), 4), len |-> 3, stored |-> 4]
             ELSE IF LtPow2(value, 28) THEN
                 [data |-> StoreLE(data, offset, Trunc(e3, 32), 4), len |-> 4, stored |-> 4]
             ELSE IF LtPow2(value, 35) THEN
                 [data |-> StoreLE(data, offset, e4, 8), len |-> 5, stored |-> 8]
             ELSE IF LtPow2(value, 42) THEN
                 [data |-> StoreLE(data, offset, e5, 8), len |-> 6, stored |-> 8]
             ELSE IF LtPow2(value, 49) THEN
                 [data |-> StoreLE(data, offset, e6, 8), len |-> 7, stored |-> 8]
             ELSE IF LtPow2(value, 55) THEN
                 [data |-> StoreLE(data, offset, e7, 8), len |-> 8, stored |-> 8]
             ELSE
                 [data |-> StoreLE(StoreLE(data, offset, e8, 8), offset + 8, Shr(value, 56), 1),
                  len |-> 9, stored |-> 9]

put_var_uint64(data, offset, value) ==
    IF LtPow2(value, 7) THEN
        [data |-> StoreLE(data, offset, value, 1), len |-> 1, stored |-> 1]
    ELSE LET e1 == BOr(BOr(BAnd(value, X7F), {7}), Shl(BAnd(value, X3F80), 1, 64))
             e2 == BOr(e1, BOr(Shl(BAnd(value, X1FC000), 2, 64), {15}))
             e3 == BOr(e2, BOr(Shl(BAnd(value, XFE00000), 3, 64), {23}))
             e4 == BOr(e3, BOr(Shl(BAnd(value, X7F0000000), 4, 64), {31}))
             e5 == BOr(e4, BOr(Shl(BAnd(value, X3F800000000), 5, 64), {39}))
             e6 == BOr(e5, BOr(Shl(BAnd(value, X1FC0000000000), 6, 64), {47}))
             e7 == BOr(e6, BOr(Shl(BAnd(value, XFE000000000000), 7, 64), {55}))
             e8 == BOr(e7, {63})
         IN  IF LtPow2(value, 14) THEN
                 [data |-> StoreLE(data, offset, Trunc(e1, 16), 2), len |-> 2, stored |-> 2]
             ELSE IF LtPow2(value, 21) THEN
                 [data |-> StoreLE(data, offset, Trunc(e2, 32), 4), len |-> 3, stored |-> 4]
             ELSE IF LtPow2(value, 28) THEN
                 [data |-> StoreLE(data, offset, Trunc(e3, 32), 4), len |-> 4, stored |-> 4]
             ELSE IF LtPow2(value, 35) THEN
                 [data |-> StoreLE(data, offset, e4, 8), len |-> 5, stored |-> 8]
             ELSE IF LtPow2(value, 42) THEN
                 [data |-> StoreLE(data, offset, e5, 8), len |-> 6, stored |-> 8]
             ELSE IF LtPow2(value, 49) THEN
                 [data |-> StoreLE(data, offset, e6, 8), len |-> 7, stored |-> 8]
             ELSE IF LtPow2(value, 56) THEN
                 [data |-> StoreLE(data, offset, e7, 8), len |-> 8, stored |-> 8]
             ELSE
                 [data |-> StoreLE(StoreLE(data, offset, e8, 8), offset + 8, Shr(value, 56), 1),
                  len |-> 9, stored |-> 9]

\* get_var_uint64_slow: the loop over the first 8 bytes, then the raw 9th byte
RECURSIVE var_uint64_slow_from(_, _, _, _, _, _)
var_uint64_slow_from(data, size, offset, position, i, result) ==
    IF position >= size THEN [val |-> {}, len |-> 0]
    ELSE LET b == ByteBits(data[position + 1])
         IN  IF i = 8 THEN [val |-> BOr(result, Shl(b, 56, 64)), len |-> position + 1 - offset]
             ELSE LET r == BOr(result, Shl(BAnd(b, X7F), 7 * i, 64))
                  IN  IF 7 \notin b THEN [val |-> r, len |-> position + 1 - offset]
                      ELSE var_uint64_slow_from(data, size, offset, position + 1, i + 1, r)

get_var_uint64_slow(data, size, offset) ==
    IF offset >= size THEN [val |-> {}, len |-> 0]
    ELSE var_uint64_slow_from(data, size, offset, offset, 0, {})

\* the bulk decoding of a uint64 loaded at `offset`; byte9 is data_[offset + 8]
var_uint64_bulk(bulk, byte9) ==
    LET r1 == BAnd(bulk, X7F)
        r2 == BOr(r1, BAnd(Shr(bulk, 1), X3F80))
        r3 == BOr(r2, BAnd(Shr(bulk, 2), X1FC000))
        r4 == BOr(r3, BAnd(Shr(bulk, 3), XFE00000))
        r5 == BOr(r4, BAnd(Shr(bulk, 4), X7F0000000))
        r6 == BOr(r5, BAnd(Shr(bulk, 5), X3F800000000))
        r7 == BOr(r6, BAnd(Shr(bulk, 6), X1FC0000000000))
        r8 == BOr(r7, BAnd(Shr(bulk, 7), XFE000000000000))
        r9 == BOr(r8, Shl(ByteBits(byte9), 56, 64))
    IN  IF 7 \notin bulk THEN [val |-> r1, len |-> 1]
        ELSE IF 15 \notin bulk THEN [val |-> r2, len |-> 2]
        ELSE IF 23 \notin bulk THEN [val |-> r3, len |-> 3]
        ELSE IF 31 \notin bulk THEN [val |-> r4, len |-> 4]
        ELSE IF 39 \notin bulk THEN [val |-> r5, len |-> 5]
        ELSE IF 47 \notin bulk THEN [val |-> r6, len |-> 6]
        ELSE IF 55 \notin bulk THEN [val |-> r7, len |-> 7]
        ELSE IF 63 \notin bulk THEN [val |-> r8, len |-> 8]
        ELSE [val |-> r9, len |-> 9]

get_var_uint64(data, size, offset) ==
    IF offset >= size THEN [val |-> {}, len |-> 0]
    ELSE IF size - offset >= 9
         THEN var_uint64_bulk(LoadLE(data, offset, 8), data[offset + 9])
         ELSE get_var_uint64_slow(data, size, offset)

-----------------------------------------------------------------------------
(* ForyInputStreamBuf (stream.h): the stream a Buffer refills from.          *)
(*   src    the bytes the underlying source will deliver, in order           *)
(*   cap    buffer_.size(), a word (a refill may ask for up to 2^32-1 bytes)  *)
(*   alloc  identity of buffer_'s current allocation (eback())              *)
(*   gptr   reader_index() = gptr() - eback()                               *)
(*   egptr  size() = egptr() - eback(); the source has delivered src[1..egptr]*)
(* env = [chunk, junk]: the source hands out at most `chunk` bytes per sgetn  *)
(* call; a byte read through a dangling data_ pointer evaluates to `junk`.    *)

NoStream == [src |-> <<>>, cap |-> {}, alloc |-> 0, gptr |-> 0, egptr |-> 0]

\* ForyInputStreamBuf(stream, buffer_size)
NewStream(src, buffer_size) ==
    [src |-> src, cap |-> FromNat(IF buffer_size > 1 THEN buffer_size ELSE 1),
     alloc |-> 0, gptr |-> 0, egptr |-> 0]

\* a word that is at most the natural number n
WLeqNat(a, n) == LtPow2(a, 30) /\ ToNat(a) <= n
\* a - b in a w-bit unsigned type
BSub(a, b, w) == BAdd(a, BAdd(BNot(b, w), {0}, w), w)
\* x > UINT32_MAX for a 64-bit x
ExceedsU32(a) == \E i \in a : i >= 32

\* ForyInputStreamBuf::reserve: buffer_.resize(new_size); growing reallocates
stream_reserve(st, new_size) ==
    [st EXCEPT !.cap = new_size,
               !.alloc = IF BLeq(new_size, st.cap) THEN @ ELSE @ + 1]

\* the while loop of fill_buffer, from write_pos on
RECURSIVE fill_loop(_, _, _, _)
fill_loop(st, write_pos, min_fill_size, chunk) ==
    IF ~WLeqNat(min_fill_size, write_pos - st.gptr)
    THEN LET full == st.cap = FromNat(write_pos)
             grown == BAdd(Shl(st.cap, 1, 64), {0}, 64)
         IN  IF full /\ ExceedsU32(grown)
             THEN [st |-> st, ok |-> FALSE, err |-> "OutOfBound"]
             ELSE LET s1 == IF full THEN stream_reserve(st, Trunc(grown, 32)) ELSE st
                      writable == BSub(s1.cap, FromNat(write_pos), 32)
                      left == Len(s1.src) - write_pos
                      lim == IF WLeqNat(writable, chunk) THEN ToNat(writable) ELSE chunk
                      read_bytes == IF left < lim THEN left ELSE lim
                  IN  IF read_bytes <= 0
                      THEN [st |-> s1, ok |-> FALSE, err |-> "BufferOutOfBound"]
                      ELSE fill_loop([s1 EXCEPT !.egptr = write_pos + read_bytes],
                                     write_pos + read_bytes, min_fill_size, chunk)
    ELSE [st |-> st, ok |-> TRUE, err |-> "ok"]

\* ForyInputStreamBuf::fill_buffer(min_fill_size)
fill_buffer(st, min_fill_size, chunk) ==
    IF min_fill_size = {} \/ WLeqNat(min_fill_size, st.egptr - st.gptr)
    THEN [st |-> st, ok |-> TRUE, err |-> "ok"]
    ELSE LET required == BAdd(FromNat(st.egptr),
                              BSub(min_fill_size, FromNat(st.egptr - st.gptr), 32), 64)
             doubled == Shl(st.cap, 1, 64)
             new_size == IF BLeq(required, doubled) THEN doubled ELSE required
             s1 == IF BLeq(required, st.cap) THEN st
                   ELSE stream_reserve(st, Trunc(new_size, 32))
         IN  IF ExceedsU32(required)
             THEN [st |-> st, ok |-> FALSE, err |-> "OutOfBound"]
             ELSE fill_loop(s1, s1.egptr, min_fill_size, chunk)

-----------------------------------------------------------------------------
(* Buffer (buffer.h).  A Buffer is a record                                  *)
(*   mem           the bytes of an in-memory buffer (data_[0 .. size_))       *)
(*   size, writer_index, reader_index                                        *)
(*   stream        stream_ != nullptr                                        *)
(*   data          for a stream-backed buffer, the allocation data_ points to *)
(*   st            the stream (NoStream for an in-memory buffer)              *)
(* A read returns [b, val, err, inb]: the buffer after the call, the value    *)
(* returned, the error code set ("ok" when none) and whether every byte it    *)
(* read lay below size_.                                                     *)

\* Buffer(uint8_t *data, uint32_t size, bool own_data)
MemBuffer(mem) ==
    [mem |-> mem, size |-> Len(mem), writer_index |-> 0, reader_index |-> 0,
     stream |-> FALSE, data |-> 0, st |-> NoStream]

\* Buffer(ForyInputStream &stream)
StreamBuffer(st) ==
    [mem |-> <<>>, size |-> st.egptr, writer_index |-> st.egptr, reader_index |-> st.gptr,
     stream |-> TRUE, data |-> st.alloc, st |-> st]

\* data_[o]
BufByte(b, env, o) ==
    IF ~b.stream THEN (IF o < Len(b.mem) THEN b.mem[o + 1] ELSE env.junk)
    ELSE IF b.data # b.st.alloc THEN env.junk
    ELSE IF o < b.st.egptr THEN b.st.src[o + 1]
    ELSE IF WLeqNat(b.st.cap, o) THEN env.junk
    ELSE 0

\* the bytes data_[0 .. size_) as the buffer sees them
View(b, env) == [i \in 1 .. b.size |-> BufByte(b, env, i - 1)]

Res(b, val, err, inb) == [b |-> b, val |-> val, err |-> err, inb |-> inb]
Chk(b, ok, err) == [b |-> b, ok |-> ok, err |-> err]

\* A value bound by LET is named once below wherever it is the result of a
\* call: the rest of the function is then an operator of its own that takes
\* the result, named <function>_<what has happened>.

\* Buffer::fill_to, once stream_->fill_buffer has returned f
fill_to_filled(b, f) ==
    IF ~f.ok THEN Chk([b EXCEPT !.st = f.st], FALSE, f.err)
    ELSE Chk([b EXCEPT !.st = f.st, !.data = f.st.alloc, !.size = f.st.egptr,
                       !.reader_index = f.st.gptr, !.writer_index = f.st.egptr],
             TRUE, "ok")

\* Buffer::fill_to(target_size)
fill_to(b, target_size, env) ==
    IF WLeqNat(target_size, b.size) THEN Chk(b, TRUE, "ok")
    ELSE IF ~b.stream THEN Chk(b, FALSE, "ok")
    ELSE fill_to_filled(b, fill_buffer([b.st EXCEPT !.gptr = b.reader_index],
                                       BSub(target_size, FromNat(b.reader_index), 32),
                                       env.chunk))

\* Buffer::ensure_size, once fill_to has returned f
ensure_size_filled(f, target_size) ==
    IF ~f.ok THEN f
    ELSE IF ~WLeqNat(target_size, f.b.size) THEN Chk(f.b, FALSE, "BufferOutOfBound")
    ELSE f

\* Buffer::ensure_size(target_size), target_size a uint64
ensure_size(b, target_size, env) ==
    IF WLeqNat(target_size, b.size) THEN Chk(b, TRUE, "ok")
    ELSE IF ExceedsU32(target_size) THEN Chk(b, FALSE, "OutOfBound")
    ELSE IF ~b.stream THEN Chk(b, FALSE, "BufferOutOfBound")
    ELSE ensure_size_filled(fill_to(b, Trunc(target_size, 32), env), target_size)

\* Buffer::ensure_readable, once ensure_size has returned e
ensure_readable_sized(e, target) ==
    IF ~e.ok THEN Chk(e.b, FALSE, IF e.err = "ok" THEN "BufferOutOfBound" ELSE e.err)
    ELSE IF ~WLeqNat(target, e.b.size) THEN Chk(e.b, FALSE, "BufferOutOfBound")
    ELSE e

\* Buffer::ensure_readable, with target = reader_index_ + length computed
ensure_readable_to(b, target, env) ==
    IF WLeqNat(target, b.size) THEN Chk(b, TRUE, "ok")
    ELSE ensure_readable_sized(ensure_size(b, target, env), target)

\* Buffer::ensure_readable(length), length a uint32
ensure_readable(b, length, env) ==
    ensure_readable_to(b, BAdd(FromNat(b.reader_index), length, 64), env)

\* Buffer::increase_reader_index, once fill_to has returned f
increase_reader_index_filled(f, target) ==
    IF ~f.ok THEN Chk(f.b, FALSE, IF f.err = "ok" THEN "BufferOutOfBound" ELSE f.err)
    ELSE IF ~WLeqNat(target, f.b.size) THEN Chk(f.b, FALSE, "BufferOutOfBound")
    ELSE Chk([f.b EXCEPT !.reader_index = ToNat(target)], TRUE, "ok")

\* Buffer::increase_reader_index, with target = reader_index_ + diff computed
increase_reader_index_to(b, target, env) ==
    IF ExceedsU32(target) THEN Chk(b, FALSE, "OutOfBound")
    ELSE IF ~WLeqNat(target, b.size)
    THEN IF ~b.stream THEN Chk(b, FALSE, "BufferOutOfBound")
         ELSE increase_reader_index_filled(fill_to(b, Trunc(target, 32), env), target)
    ELSE Chk([b EXCEPT !.reader_index = ToNat(target)], TRUE, "ok")

\* Buffer::increase_reader_index(diff, error), diff a uint32
increase_reader_index(b, diff, env) ==
    increase_reader_index_to(b, BAdd(FromNat(b.reader_index), diff, 64), env)

\* the outcome of a read that ends with increase_reader_index
Advanced(a, val, inb) == Res(a.b, val, a.err, inb)

\* the n bytes at data_ + offset, as a word
LoadBuf(b, env, offset, n) ==
    UNION {{8 * j + k : k \in ByteBits(BufByte(b, env, offset + j))} : j \in 0 .. (n - 1)}

\* read_uint8 .. read_double, once ensure_readable(n) has returned e
read_fixed_checked(e, n, env) ==
    IF ~e.ok THEN Res(e.b, {}, e.err, TRUE)
    ELSE Res([e.b EXCEPT !.reader_index = @ + n], LoadBuf(e.b, env, e.b.reader_index, n),
             "ok", e.b.reader_index + n <= e.b.size)

\* read_uint8 .. read_double: ensure_readable(n), load n bytes, advance
read_fixed(b, n, env) == read_fixed_checked(ensure_readable(b, FromNat(n), env), n, env)

RECURSIVE var_uint32_slow_loop(_, _, _, _, _, _)
var_uint32_slow_sized_mut(e, env, position, i, result, inb) ==
    \* a bug: a failed refill leaves reader_index_ behind the bytes examined so far
    IF ~e.ok THEN Res([e.b EXCEPT !.reader_index = position], {}, e.err, inb)
    ELSE LET byte == ByteBits(BufByte(e.b, env, position))
             r == BOr(result, Shl(BAnd(byte, X7F), 7 * i, 32))
         IN  IF 7 \notin byte
             THEN Res([e.b EXCEPT !.reader_index = position + 1], r, "ok",
                      inb /\ position < e.b.size)
             ELSE var_uint32_slow_loop(e.b, env, position + 1, i + 1, r,
                                       inb /\ position < e.b.size)

\* Buffer::read_var_uint32_slow(Error &): iteration i, once ensure_size has returned e
var_uint32_slow_sized(e, env, position, i, result, inb) ==
    IF ~e.ok THEN Res(e.b, {}, e.err, inb)
    ELSE LET byte == ByteBits(BufByte(e.b, env, position))
             r == BOr(result, Shl(BAnd(byte, X7F), 7 * i, 32))
         IN  IF 7 \notin byte
             THEN Res([e.b EXCEPT !.reader_index = position + 1], r, "ok",
                      inb /\ position < e.b.size)
             ELSE var_uint32_slow_loop(e.b, env, position + 1, i + 1, r,
                                       inb /\ position < e.b.size)

\* Buffer::read_var_uint32_slow(Error &): the loop from iteration i on
var_uint32_slow_loop(b, env, position, i, result, inb) ==
    IF i = 5 THEN Res(b, {}, "InvalidData", inb)
    ELSE var_uint32_slow_sized(ensure_size(b, FromNat(position + 1), env),
                               env, position, i, result, inb)

read_var_uint32_slow(b, env) == var_uint32_slow_loop(b, env, b.reader_index, 0, {}, TRUE)

\* Buffer::read_var_uint32, once ensure_readable(1) has returned e
read_var_uint32_checked(e, env) ==
    IF ~e.ok THEN Res(e.b, {}, e.err, TRUE)
    ELSE IF e.b.size - e.b.reader_index < 5 THEN read_var_uint32_slow(e.b, env)
    ELSE LET d == var_uint32_bulk(LoadBuf(e.b, env, e.b.reader_index, 4),
                                  BufByte(e.b, env, e.b.reader_index + 4))
         IN  Res([e.b EXCEPT !.reader_index = @ + d.len], d.val, "ok", TRUE)

\* Buffer::read_var_uint32(Error &)
read_var_uint32(b, env) == read_var_uint32_checked(ensure_readable(b, {0}, env), env)

UnZigZag_mut(raw, w) ==
    \* a bug: the sign mask is dropped, the decoder only halves
    Shr(raw, 1)

\* (raw >> 1) ^ (~(raw & 1) + 1) in a w-bit unsigned type
UnZigZag(raw, w) == BXor(Shr(raw, 1), BAdd(BNot(BAnd(raw, {0}), w), {0}, w))

\* Buffer::read_var_int32, once read_var_uint32 has returned r
read_var_int32_raw(r) ==
    IF r.err # "ok" THEN Res(r.b, {}, r.err, r.inb)
    ELSE Res(r.b, UnZigZag(r.val, 32), "ok", r.inb)

\* Buffer::read_var_int32(Error &)
read_var_int32(b, env) == read_var_int32_raw(read_var_uint32(b, env))

RECURSIVE var_uint64_slow_loop(_, _, _, _, _, _)
\* Buffer::read_var_uint64_slow(Error &): byte i, once ensure_size has returned e;
\* the ninth byte (i = 8) is taken raw
var_uint64_slow_sized(e, env, position, i, result, inb) ==
    IF ~e.ok THEN Res(e.b, {}, e.err, inb)
    ELSE LET byte == ByteBits(BufByte(e.b, env, position))
             r == BOr(result, Shl(BAnd(byte, X7F), 7 * i, 64))
         IN  IF i = 8
             THEN Res([e.b EXCEPT !.reader_index = position + 1],
                      BOr(result, Shl(byte, 56, 64)), "ok", inb /\ position < e.b.size)
             ELSE IF 7 \notin byte
             THEN Res([e.b EXCEPT !.reader_index = position + 1], r, "ok",
                      inb /\ position < e.b.size)
             ELSE var_uint64_slow_loop(e.b, env, position + 1, i + 1, r,
                                       inb /\ position < e.b.size)

\* Buffer::read_var_uint64_slow(Error &): from byte i on
var_uint64_slow_loop(b, env, position, i, result, inb) ==
    var_uint64_slow_sized(ensure_size(b, FromNat(position + 1), env),
                          env, position, i, result, inb)

read_var_uint64_slow(b, env) == var_uint64_slow_loop(b, env, b.reader_index, 0, {}, TRUE)

\* Buffer::read_var_uint64, once get_var_uint64 has returned d
read_var_uint64_decoded(b, env, d) ==
    IF d.len = 0 THEN Res(b, {}, "BufferOutOfBound", TRUE)
    ELSE Advanced(increase_reader_index(b, FromNat(d.len), env), d.val, TRUE)

\* Buffer::read_var_uint64, once ensure_readable(1) has returned e
read_var_uint64_checked(e, env) ==
    IF ~e.ok THEN Res(e.b, {}, e.err, TRUE)
    ELSE IF e.b.size - e.b.reader_index < 9 THEN read_var_uint64_slow(e.b, env)
    ELSE read_var_uint64_decoded(e.b, env,
                                 get_var_uint64(View(e.b, env), e.b.size, e.b.reader_index))

\* Buffer::read_var_uint64(Error &)
read_var_uint64(b, env) == read_var_uint64_checked(ensure_readable(b, {0}, env), env)

\* Buffer::read_var_int64, once read_var_uint64 has returned r: the error is not looked at
read_var_int64_raw(r) == Res(r.b, UnZigZag(r.val, 64), r.err, r.inb)

\* Buffer::read_var_int64(Error &)
read_var_int64(b, env) == read_var_int64_raw(read_var_uint64(b, env))

\* static_cast<int64_t>(x) of a signed w-bit x
SignExtend(a, w) == a \cup (IF (w - 1) \in a THEN w .. 63 ELSE {})

\* read_tagged_int64 / read_tagged_uint64: the 9-byte form, once ensure_readable(9)
\* has returned f
read_tagged_wide(f, env, in4) ==
    IF ~f.ok THEN Res(f.b, {}, f.err, in4)
    ELSE Res([f.b EXCEPT !.reader_index = @ + 9],
             LoadBuf(f.b, env, f.b.reader_index + 1, 8), "ok",
             in4 /\ f.b.reader_index + 9 <= f.b.size)

\* Buffer::read_tagged_int64, once ensure_readable(4) has returned e
read_tagged_int64_checked(e, env) ==
    IF ~e.ok THEN Res(e.b, {}, e.err, TRUE)
    ELSE LET i == LoadBuf(e.b, env, e.b.reader_index, 4)
         IN  IF 0 \notin i
             THEN Res([e.b EXCEPT !.reader_index = @ + 4],
                      SignExtend(Sar(i, 1, 32), 32), "ok",
                      e.b.reader_index + 4 <= e.b.size)
             ELSE read_tagged_wide(ensure_readable(e.b, {0, 3}, env), env,
                                   e.b.reader_index + 4 <= e.b.size)

\* Buffer::read_tagged_int64(Error &)
read_tagged_int64(b, env) == read_tagged_int64_checked(ensure_readable(b, {2}, env), env)

\* Buffer::read_tagged_uint64, once ensure_readable(4) has returned e
read_tagged_uint64_checked(e, env) ==
    IF ~e.ok THEN Res(e.b, {}, e.err, TRUE)
    ELSE LET i == LoadBuf(e.b, env, e.b.reader_index, 4)
         IN  IF 0 \notin i
             THEN Res([e.b EXCEPT !.reader_index = @ + 4], Shr(i, 1), "ok",
                      e.b.reader_index + 4 <= e.b.size)
             ELSE read_tagged_wide(ensure_readable(e.b, {0, 3}, env), env,
                                   e.b.reader_index + 4 <= e.b.size)

\* Buffer::read_tagged_uint64(Error &)
read_tagged_uint64(b, env) == read_tagged_uint64_checked(ensure_readable(b, {2}, env), env)

RECURSIVE var_uint36_small_slow_loop(_, _, _, _, _, _)
\* Buffer::read_var_uint36_small_slow: byte i, once ensure_size has returned e;
\* the fifth byte (i = 4) is taken raw
var_uint36_small_slow_sized(e, env, position, i, result, inb) ==
    IF ~e.ok THEN Res(e.b, {}, e.err, inb)
    ELSE LET byte == ByteBits(BufByte(e.b, env, position))
             r == BOr(result, Shl(BAnd(byte, X7F), 7 * i, 64))
         IN  IF i = 4
             THEN Res([e.b EXCEPT !.reader_index = position + 1],
                      BOr(result, Shl(byte, 28, 64)), "ok", inb /\ position < e.b.size)
             ELSE IF 7 \notin byte
             THEN Res([e.b EXCEPT !.reader_index = position + 1], r, "ok",
                      inb /\ position < e.b.size)
             ELSE var_uint36_small_slow_loop(e.b, env, position + 1, i + 1, r,
                                             inb /\ position < e.b.size)

\* Buffer::read_var_uint36_small_slow: from byte i on
var_uint36_small_slow_loop(b, env, position, i, result, inb) ==
    var_uint36_small_slow_sized(ensure_size(b, FromNat(position + 1), env),
                                env, position, i, result, inb)

read_var_uint36_small_slow(b, env) ==
    var_uint36_small_slow_loop(b, env, b.reader_index, 0, {}, TRUE)

\* the bulk decoding of read_var_uint36_small from a uint64 loaded at `offset`
var_uint36_small_bulk(bulk) ==
    LET r1 == BAnd(bulk, X7F)
        r2 == BOr(r1, BAnd(Shr(bulk, 1), X3F80))
        r3 == BOr(r2, BAnd(Shr(bulk, 2), X1FC000))
        r4 == BOr(r3, BAnd(Shr(bulk, 3), XFE00000))
        r5 == BOr(r4, BAnd(Shr(bulk, 4), XFF0000000))
    IN  IF 7 \notin bulk THEN [val |-> r1, len |-> 1]
        ELSE IF 15 \notin bulk THEN [val |-> r2, len |-> 2]
        ELSE IF 23 \notin bulk THEN [val |-> r3, len |-> 3]
        ELSE IF 31 \notin bulk THEN [val |-> r4, len |-> 4]
        ELSE [val |-> r5, len |-> 5]

\* Buffer::read_var_uint36_small, once the bulk word has been decoded to d
read_var_uint36_small_decoded(b, env, d) ==
    Advanced(increase_reader_index(b, FromNat(d.len), env), d.val, TRUE)

\* Buffer::read_var_uint36_small, once ensure_readable(1) has returned e
read_var_uint36_small_checked(e, env) ==
    IF ~e.ok THEN Res(e.b, {}, e.err, TRUE)
    ELSE IF e.b.size - e.b.reader_index < 8 THEN read_var_uint36_small_slow(e.b, env)
    ELSE read_var_uint36_small_decoded(e.b, env,
             var_uint36_small_bulk(LoadBuf(e.b, env, e.b.reader_index, 8)))

\* Buffer::read_var_uint36_small(Error &)
read_var_uint36_small(b, env) ==
    read_var_uint36_small_checked(ensure_readable(b, {0}, env), env)

\* Buffer::copy(reader_index_, n, dst): the bytes copied out
Copied(b, env, n) == [j \in 1 .. n |-> BufByte(b, env, b.reader_index + j - 1)]

\* Buffer::read_bytes, once ensure_readable(length) has returned e
read_bytes_checked(e, length, env) ==
    IF ~e.ok THEN Res(e.b, <<>>, e.err, TRUE)
    ELSE Advanced(increase_reader_index(e.b, length, env), Copied(e.b, env, ToNat(length)),
                  e.b.reader_index + ToNat(length) <= e.b.size)

\* Buffer::read_bytes(data, length, error); the value is the bytes copied out
read_bytes(b, length, env) == read_bytes_checked(ensure_readable(b, length, env), length, env)

\* Buffer::skip, once ensure_readable(length) has returned e
skip_checked(e, length, env) ==
    IF ~e.ok THEN Res(e.b, {}, e.err, TRUE)
    ELSE Advanced(increase_reader_index(e.b, length, env), {}, TRUE)

\* Buffer::skip(length, error)
skip(b, length, env) == skip_checked(ensure_readable(b, length, env), length, env)

-----------------------------------------------------------------------------
(* Writing (buffer.h).  Memory handed out by realloc/malloc is not           *)
(* initialised: every new byte holds `fill`.                                 *)

\* util::round_number_of_bytes_to_nearest_word(num_bytes): (num_bytes + 7) & ~7
round_number_of_bytes_to_nearest_word(num_bytes) ==
    BAnd(BAdd(num_bytes, {0, 1, 2}, 64), BNot({0, 1, 2}, 64))

\* Buffer::reserve(new_size)
reserve(b, new_size, fill) ==
    IF WLeqNat(new_size, b.size) THEN b
    ELSE [b EXCEPT !.mem = [i \in 1 .. ToNat(new_size) |->
                               IF i <= Len(b.mem) THEN b.mem[i] ELSE fill],
                   !.size = ToNat(new_size)]

\* Buffer::grow(min_capacity)
grow(b, min_capacity, fill) ==
    LET len == BAdd(FromNat(b.writer_index), FromNat(min_capacity), 32)
    IN  IF WLeqNat(len, b.size) THEN b
        ELSE reserve(b, Trunc(round_number_of_bytes_to_nearest_word(Shl(len, 1, 32)), 32), fill)

\* Buffer::increase_writer_index(diff)
increase_writer_index(b, diff) == [b EXCEPT !.writer_index = @ + diff]

\* Buffer::write_uint8(value)
write_uint8(b, value, fill) ==
    LET g == grow(b, 1, fill)
    IN  increase_writer_index([g EXCEPT !.mem = StoreLE(g.mem, g.writer_index, value, 1)], 1)

\* Buffer::write_bytes(data, length)
write_bytes(b, bytes, fill) ==
    LET g == grow(b, Len(bytes), fill)
    IN  increase_writer_index(
            [g EXCEPT !.mem = [i \in 1 .. Len(g.mem) |->
                IF i > g.writer_index /\ i <= g.writer_index + Len(bytes)
                THEN bytes[i - g.writer_index] ELSE g.mem[i]]],
            Len(bytes))

\* Buffer::write_var_uint32(value)
write_var_uint32(b, value, fill) ==
    LET g == grow(b, 8, fill)
        p == put_var_uint32(g.mem, g.writer_index, value)
    IN  increase_writer_index([g EXCEPT !.mem = p.data], p.len)

ZigZag_mut(value, w) ==
    \* a bug: a logical instead of an arithmetic right shift of the sign
    BXor(Shl(value, 1, w), Shr(value, w - 1))

\* (static_cast<uintN>(value) << 1) ^ static_cast<uintN>(value >> (N - 1))
ZigZag(value, w) == BXor(Shl(value, 1, w), Sar(value, w - 1, w))

\* Buffer::write_var_int32(value)
write_var_int32(b, value, fill) == write_var_uint32(b, ZigZag(value, 32), fill)

\* Buffer::write_var_uint64(value)
write_var_uint64(b, value, fill) ==
    LET g == grow(b, 9, fill)
        p == put_var_uint64(g.mem, g.writer_index, value)
    IN  increase_writer_index([g EXCEPT !.mem = p.data], p.len)

\* Buffer::write_var_int64(value)
write_var_int64(b, value, fill) == write_var_uint64(b, ZigZag(value, 64), fill)

\* signed a <= b on w-bit words
SLeq(a, b, w) ==
    IF ((w - 1) \in a) # ((w - 1) \in b) THEN (w - 1) \in a ELSE BLeq(a, b)

\* Buffer::write_int32(value)
write_int32(b, value, fill) ==
    LET g == grow(b, 4, fill)
    IN  increase_writer_index([g EXCEPT !.mem = StoreLE(g.mem, g.writer_index, value, 4)], 4)

HALF_MIN_INT_VALUE == BNot(0 .. 29, 64)   \* -1073741824
HALF_MAX_INT_VALUE == 0 .. 29             \* 1073741823
MAX_SMALL_VALUE == 0 .. 30                \* 0x7fffffff

\* static_cast<int32_t>(value) << 1; a shift out of the int32 range keeps the
\* low 32 bits of the product
tagged_small(value) == Shl(Trunc(value, 32), 1, 32)

\* the 9-byte form: data_[writer_index_] = 0b1; unsafe_put<T>(writer_index_ + 1, value)
write_tagged_wide(b, value, fill) ==
    LET g == grow(b, 9, fill)
    IN  increase_writer_index(
            [g EXCEPT !.mem = StoreLE(StoreLE(g.mem, g.writer_index, {0}, 1),
                                      g.writer_index + 1, value, 8)], 9)

write_tagged_int64_mut(b, value, fill) ==
    \* a bug: the largest small value is taken for a wide one
    IF SLeq(HALF_MIN_INT_VALUE, value, 64) /\ SLeq(value, HALF_MAX_INT_VALUE, 64)
       /\ value # HALF_MAX_INT_VALUE
    THEN write_int32(b, tagged_small(value), fill)
    ELSE write_tagged_wide(b, value, fill)

\* Buffer::write_tagged_int64(value)
write_tagged_int64(b, value, fill) ==
    IF SLeq(HALF_MIN_INT_VALUE, value, 64) /\ SLeq(value, HALF_MAX_INT_VALUE, 64)
    THEN write_int32(b, tagged_small(value), fill)
    ELSE write_tagged_wide(b, value, fill)

\* Buffer::write_tagged_uint64(value)
write_tagged_uint64(b, value, fill) ==
    IF BLeq(value, MAX_SMALL_VALUE)
    THEN write_int32(b, tagged_small(value), fill)
    ELSE write_tagged_wide(b, value, fill)

\* Buffer::put_tagged_int64(offset, value)
put_tagged_int64(data, offset, value) ==
    IF SLeq(HALF_MIN_INT_VALUE, value, 64) /\ SLeq(value, HALF_MAX_INT_VALUE, 64)
    THEN [data |-> StoreLE(data, offset, tagged_small(value), 4), len |-> 4]
    ELSE [data |-> StoreLE(StoreLE(data, offset, {0}, 1), offset + 1, value, 8), len |-> 9]

\* Buffer::put_tagged_uint64(offset, value)
put_tagged_uint64(data, offset, value) ==
    IF BLeq(value, MAX_SMALL_VALUE)
    THEN [data |-> StoreLE(data, offset, tagged_small(value), 4), len |-> 4]
    ELSE [data |-> StoreLE(StoreLE(data, offset, {0}, 1), offset + 1, value, 8), len |-> 9]

\* Buffer::get_tagged_int64(offset, &read_bytes_length)
get_tagged_int64(data, offset) ==
    LET i == LoadLE(data, offset, 4)
    IN  IF 0 \notin i THEN [val |-> SignExtend(Sar(i, 1, 32), 32), len |-> 4]
        ELSE [val |-> LoadLE(data, offset + 1, 8), len |-> 9]

\* Buffer::get_tagged_uint64(offset, &read_bytes_length)
get_tagged_uint64(data, offset) ==
    LET i == LoadLE(data, offset, 4)
    IN  IF 0 \notin i THEN [val |-> Shr(i, 1), len |-> 4]
        ELSE [val |-> LoadLE(data, offset + 1, 8), len |-> 9]

-----------------------------------------------------------------------------
(* Meta strings (meta_string.cc).  A string is a sequence of character codes, *)
(* encoded bytes are a sequence of integers 0..255.                           *)

\* MetaStringEncoder::lower_special_char_value(c)
lower_special_char_value(c) ==
    IF c >= 97 /\ c <= 122 THEN c - 97
    ELSE CASE c = 46 -> 26      \* '.'
           [] c = 95 -> 27      \* '_'
           [] c = 36 -> 28      \* '$'
           [] c = 124 -> 29     \* '|'
           [] OTHER -> -1

\* (value & (1 << i)) != 0 for an int value; -1 has every bit set
IntBit(value, i) == IF value < 0 THEN TRUE ELSE (value \div (2 ^ i)) % 2 = 1

\* encode_lower_special: whether the loops set bit current_bit of the bytes
lower_special_bit(input, current_bit) ==
    /\ current_bit >= 1 /\ current_bit <= 5 * Len(input)
    /\ IntBit(lower_special_char_value(input[((current_bit - 1) \div 5) + 1]),
              4 - ((current_bit - 1) % 5))

\* encode_lower_special: byte byte_pos after the loops
lower_special_byte(input, byte_pos) ==
      (IF lower_special_bit(input, 8 * byte_pos)     THEN 128 ELSE 0)
    + (IF lower_special_bit(input, 8 * byte_pos + 1) THEN 64  ELSE 0)
    + (IF lower_special_bit(input, 8 * byte_pos + 2) THEN 32  ELSE 0)
    + (IF lower_special_bit(input, 8 * byte_pos + 3) THEN 16  ELSE 0)
    + (IF lower_special_bit(input, 8 * byte_pos + 4) THEN 8   ELSE 0)
    + (IF lower_special_bit(input, 8 * byte_pos + 5) THEN 4   ELSE 0)
    + (IF lower_special_bit(input, 8 * byte_pos + 6) THEN 2   ELSE 0)
    + (IF lower_special_bit(input, 8 * byte_pos + 7) THEN 1   ELSE 0)

encode_lower_special_mut(input) ==
    \* a bug: the strip-last-char flag is never set
    [k \in 1 .. (Len(input) * 5 + 1 + 7) \div 8 |-> lower_special_byte(input, k - 1)]

\* MetaStringEncoder::encode_lower_special(input)
encode_lower_special(input) ==
    LET total_bits == Len(input) * 5 + 1
        byte_length == (total_bits + 7) \div 8
    IN  [k \in 1 .. byte_length |->
            IF k = 1 /\ byte_length * 8 >= total_bits + 5
            THEN 128 + lower_special_byte(input, 0)
            ELSE lower_special_byte(input, k - 1)]

\* MetaStringDecoder::decode_lower_special_char(value)
decode_lower_special_char(value) ==
    IF value <= 25 THEN [val |-> 97 + value, err |-> "ok"]
    ELSE CASE value = 26 -> [val |-> 46, err |-> "ok"]
           [] value = 27 -> [val |-> 95, err |-> "ok"]
           [] value = 28 -> [val |-> 36, err |-> "ok"]
           [] value = 29 -> [val |-> 124, err |-> "ok"]
           [] OTHER -> [val |-> 0, err |-> "EncodeError"]

\* decode_lower_special: char_value at bit_index
lower_special_char_at(data, bit_index) ==
    LET byte_index == bit_index \div 8
        intra_byte_index == bit_index % 8
        two_bytes == data[byte_index + 1] * 256
                     + (IF byte_index + 1 < Len(data) THEN data[byte_index + 2] ELSE 0)
    IN  IF intra_byte_index > 3
        THEN (two_bytes \div (2 ^ (11 - intra_byte_index))) % 32
        ELSE (data[byte_index + 1] \div (2 ^ (3 - intra_byte_index))) % 32

RECURSIVE decode_lower_special_from(_, _, _)
\* decode_lower_special: the while loop, from bit_index on
decode_lower_special_from(data, bit_index, decoded) ==
    IF ~(/\ bit_index + 5 <= Len(data) * 8
         /\ ~(data[1] >= 128 /\ bit_index + 2 * 5 > Len(data) * 8))
    THEN [val |-> decoded, err |-> "ok"]
    ELSE LET ch == decode_lower_special_char(lower_special_char_at(data, bit_index))
         IN  IF ch.err # "ok" THEN [val |-> <<>>, err |-> ch.err]
             ELSE decode_lower_special_from(data, bit_index + 5, Append(decoded, ch.val))

\* MetaStringDecoder::decode_lower_special(data, len)
decode_lower_special(data) ==
    IF Len(data) = 0 THEN [val |-> <<>>, err |-> "ok"]
    ELSE decode_lower_special_from(data, 1, <<>>)

-----------------------------------------------------------------------------
(* The values the codecs are exercised on: words with few 1 bits at the      *)
(* positions where an encoding changes length, the all-ones words below      *)
(* such a position, the complements of both, and their 32-bit truncations.   *)

MaxOnes == 1      \* 1 bits in a sparse word
MaxOffset == 1    \* bytes in front of the encoding

\* the bit positions around which an unsigned or a zig-zag encoding grows by a
\* byte, those around which a tagged encoding becomes wide, and those around
\* the top of a 32-bit and of a 64-bit word
Edge == {0, 5, 6, 7, 12, 13, 14, 19, 20, 21, 26, 27, 28, 29, 30, 31, 32, 33, 34, 35,
         40, 41, 42, 47, 48, 49, 54, 55, 56, 61, 62, 63}

RECURSIVE SparseWords(_)
SparseWords(k) ==
    IF k = 0 THEN {{}}
    ELSE LET p == SparseWords(k - 1) IN p \cup {s \cup {e} : s \in p, e \in Edge}

Words64 ==
    LET base == SparseWords(MaxOnes) \cup {0 .. k : k \in Edge}
    IN  base \cup {BNot(s, 64) : s \in base}
Words == Words64 \cup {Trunc(x, 32) : x \in Words64}

FillBytes == {0, 255}
Filled(n, fill) == [i \in 1 .. n |-> fill]

\* the bytes data_[0 .. n) of an in-memory buffer, wrapped as a new Buffer
Received(b, n) == MemBuffer(SubSeq(b.mem, 1, n))
NoEnv == [chunk |-> 1, junk |-> 0]

-----------------------------------------------------------------------------
(* Specification of the codecs: Init draws a value, an offset and the byte   *)
(* that uninitialised memory holds; each action applies one encoder to it    *)
(* and decodes the result, once from the buffer that was written (at least   *)
(* 8 or 9 bytes remain: bulk path) and once from a buffer holding exactly    *)
(* the encoded bytes (byte-wise path unless the encoding has full length).   *)

Unused == [used |-> FALSE]

MaxStrLen == 9    \* characters in a meta string

\* a-z . _ $ |
LowerSpecialChars == (97 .. 122) \cup {46, 95, 36, 124}
\* strings of one repeated character, with at most one position holding any
\* character of the alphabet or 'A', which is outside it
Strings ==
    UNION {{[i \in 1 .. n |-> IF i = at THEN c ELSE base] :
               base \in {97, 124}, at \in 0 .. n, c \in LowerSpecialChars \cup {65}} :
           n \in 0 .. MaxStrLen}

CodecInputs ==
    {[op |-> "input", value |-> v, offset |-> o, fill |-> f] :
        v \in Words, o \in 0 .. MaxOffset, f \in FillBytes}
    \cup {[op |-> "input_string", str |-> str] : str \in Strings}

InitCodec ==
    /\ codec \in CodecInputs
    /\ wctx = Unused /\ wobs = Unused /\ rctx = Unused /\ robs = Unused /\ sio = Unused

\* put_var_uint32(offset, value) then get_var_uint32(offset, &len)
PutGetVarUint32 ==
    /\ codec.op = "input" /\ LtPow2(codec.value, 32)
    /\ LET p == put_var_uint32(Filled(codec.offset + 8, codec.fill), codec.offset, codec.value)
           n == codec.offset + p.len
       IN  codec' = [op |-> "put_get_var_uint32", value |-> codec.value,
                     offset |-> codec.offset, fill |-> codec.fill, len |-> p.len,
                     bytes |-> SubSeq(p.data, codec.offset + 1, n),
                     same |-> get_var_uint32(p.data, Len(p.data), codec.offset),
                     tight |-> get_var_uint32(SubSeq(p.data, 1, n), n, codec.offset)]
    /\ UNCHANGED <<wctx, wobs, rctx, robs, sio>>

\* put_var_uint64(offset, value) then get_var_uint64(offset, &len)
PutGetVarUint64 ==
    /\ codec.op = "input"
    /\ LET p == put_var_uint64(Filled(codec.offset + 9, codec.fill), codec.offset, codec.value)
           n == codec.offset + p.len
       IN  codec' = [op |-> "put_get_var_uint64", value |-> codec.value,
                     offset |-> codec.offset, fill |-> codec.fill, len |-> p.len,
                     bytes |-> SubSeq(p.data, codec.offset + 1, n),
                     same |-> get_var_uint64(p.data, Len(p.data), codec.offset),
                     tight |-> get_var_uint64(SubSeq(p.data, 1, n), n, codec.offset)]
    /\ UNCHANGED <<wctx, wobs, rctx, robs, sio>>

\* skip(offset) then one read, reported as value, error and reader advance
ReadBack(s, r) ==
    [val |-> r.val, err |-> IF s.err # "ok" THEN s.err ELSE r.err,
     adv |-> r.b.reader_index - s.b.reader_index]
ReadBackVarInt32(b, offset) ==
    LET s == skip(b, FromNat(offset), NoEnv) IN ReadBack(s, read_var_int32(s.b, NoEnv))
ReadBackVarInt64(b, offset) ==
    LET s == skip(b, FromNat(offset), NoEnv) IN ReadBack(s, read_var_int64(s.b, NoEnv))

\* write_var_int32(value) after `offset` bytes, then read_var_int32
WriteReadVarInt32 ==
    /\ codec.op = "input" /\ LtPow2(codec.value, 32)
    /\ LET b1 == write_bytes(MemBuffer(<<>>), Filled(codec.offset, codec.fill), codec.fill)
           b2 == write_var_int32(b1, codec.value, codec.fill)
           rb == Received(b2, b2.writer_index)
       IN  codec' = [op |-> "write_read_var_int32", value |-> codec.value,
                     offset |-> codec.offset, fill |-> codec.fill,
                     len |-> b2.writer_index - b1.writer_index,
                     raw |-> get_var_uint32(rb.mem, rb.size, codec.offset).val,
                     same |-> ReadBackVarInt32(b2, codec.offset),
                     tight |-> ReadBackVarInt32(rb, codec.offset)]
    /\ UNCHANGED <<wctx, wobs, rctx, robs, sio>>

\* write_var_int64(value) after `offset` bytes, then read_var_int64
WriteReadVarInt64 ==
    /\ codec.op = "input"
    /\ LET b1 == write_bytes(MemBuffer(<<>>), Filled(codec.offset, codec.fill), codec.fill)
           b2 == write_var_int64(b1, codec.value, codec.fill)
           rb == Received(b2, b2.writer_index)
       IN  codec' = [op |-> "write_read_var_int64", value |-> codec.value,
                     offset |-> codec.offset, fill |-> codec.fill,
                     len |-> b2.writer_index - b1.writer_index,
                     raw |-> get_var_uint64(rb.mem, rb.size, codec.offset).val,
                     same |-> ReadBackVarInt64(b2, codec.offset),
                     tight |-> ReadBackVarInt64(rb, codec.offset)]
    /\ UNCHANGED <<wctx, wobs, rctx, robs, sio>>

ReadBackTaggedInt64(b, offset) ==
    LET s == skip(b, FromNat(offset), NoEnv) IN ReadBack(s, read_tagged_int64(s.b, NoEnv))
ReadBackTaggedUint64(b, offset) ==
    LET s == skip(b, FromNat(offset), NoEnv) IN ReadBack(s, read_tagged_uint64(s.b, NoEnv))

\* what one tagged encoder did: w is the buffer after `offset` bytes and
\* write_tagged_*, p the result of put_tagged_* at `offset`, g of get_tagged_*
\* on the written bytes, same and tight of read_tagged_* on the written
\* buffer and on the written bytes alone
Tagged(op, c, w, p, g, same, tight) ==
    [op |-> op, value |-> c.value, offset |-> c.offset, fill |-> c.fill,
     len |-> w.writer_index - c.offset,
     bytes |-> SubSeq(w.mem, c.offset + 1, w.writer_index),
     put |-> [len |-> p.len, bytes |-> SubSeq(p.data, c.offset + 1, c.offset + p.len)],
     get |-> g, same |-> same, tight |-> tight]

\* write_tagged_int64(value) after `offset` bytes, then read_tagged_int64;
\* put_tagged_int64(offset, value), then get_tagged_int64(offset, &len)
WriteReadTaggedInt64 ==
    /\ codec.op = "input"
    /\ LET b1 == write_bytes(MemBuffer(<<>>), Filled(codec.offset, codec.fill), codec.fill)
           b2 == write_tagged_int64(b1, codec.value, codec.fill)
       IN  codec' = Tagged("tagged_int64", codec, b2,
                           put_tagged_int64(Filled(codec.offset + 9, codec.fill),
                                            codec.offset, codec.value),
                           get_tagged_int64(b2.mem, codec.offset),
                           ReadBackTaggedInt64(b2, codec.offset),
                           ReadBackTaggedInt64(Received(b2, b2.writer_index), codec.offset))
    /\ UNCHANGED <<wctx, wobs, rctx, robs, sio>>

\* write_tagged_uint64(value) after `offset` bytes, then read_tagged_uint64;
\* put_tagged_uint64(offset, value), then get_tagged_uint64(offset, &len)
WriteReadTaggedUint64 ==
    /\ codec.op = "input"
    /\ LET b1 == write_bytes(MemBuffer(<<>>), Filled(codec.offset, codec.fill), codec.fill)
           b2 == write_tagged_uint64(b1, codec.value, codec.fill)
       IN  codec' = Tagged("tagged_uint64", codec, b2,
                           put_tagged_uint64(Filled(codec.offset + 9, codec.fill),
                                             codec.offset, codec.value),
                           get_tagged_uint64(b2.mem, codec.offset),
                           ReadBackTaggedUint64(b2, codec.offset),
                           ReadBackTaggedUint64(Received(b2, b2.writer_index), codec.offset))
    /\ UNCHANGED <<wctx, wobs, rctx, robs, sio>>

\* encode_lower_special(input), then decode_lower_special on its bytes
EncodeDecodeLowerSpecial ==
    /\ codec.op = "input_string"
    /\ codec' = [op |-> "lower_special", str |-> codec.str,
                 bytes |-> encode_lower_special(codec.str),
                 decoded |-> decode_lower_special(encode_lower_special(codec.str))]
    /\ UNCHANGED <<wctx, wobs, rctx, robs, sio>>

NextCodec ==
    \/ PutGetVarUint32 \/ PutGetVarUint64 \/ WriteReadVarInt32 \/ WriteReadVarInt64
    \/ WriteReadTaggedInt64 \/ WriteReadTaggedUint64
    \/ EncodeDecodeLowerSpecial

SpecCodec == InitCodec /\ [][NextCodec]_vars

-----------------------------------------------------------------------------
(* Properties of the codecs *)

Min(a, b) == IF a < b THEN a ELSE b
Max(a, b) == IF a < b THEN b ELSE a
CeilDiv(a, b) == (a + b - 1) \div b
\* |v| of a signed w-bit v, as an unsigned word
Abs(v, w) == IF (w - 1) \in v THEN BAdd(BNot(v, w), {0}, w) ELSE v

\* C7: get_var_uint32 applied to the bytes written by put_var_uint32(offset, n)
\* returns n and the byte count put_var_uint32 returned, both on the bulk path
\* (decoding in the written buffer) and on the byte-wise path (decoding the
\* encoded bytes alone); the count is the smallest number of 7-bit groups
\* that holds n: 1 below 2^7, 2 below 2^14, 3 below 2^21, 4 below 2^28, else 5.
C7_VarUint32RoundTrip ==
    codec.op = "put_get_var_uint32" =>
        /\ codec.same = [val |-> codec.value, len |-> codec.len]
        /\ codec.tight = [val |-> codec.value, len |-> codec.len]
        /\ codec.len = (IF LtPow2(codec.value, 7) THEN 1
                        ELSE IF LtPow2(codec.value, 14) THEN 2
                        ELSE IF LtPow2(codec.value, 21) THEN 3
                        ELSE IF LtPow2(codec.value, 28) THEN 4 ELSE 5)

\* a 4-byte encoding at a non-zero offset: decoded byte-wise from the encoded
\* bytes alone and in bulk from the written buffer
C7_Witness ==
    /\ codec.op = "put_get_var_uint32"
    /\ codec.len = 4 /\ codec.offset > 0 /\ codec.fill = 255
    /\ codec.tight.len = 4 /\ codec.same.len = 4

\* C8: get_var_uint64 applied to the bytes written by put_var_uint64(offset, n)
\* returns n and the same byte count on both decoding paths; the count is in
\* 1..9, and it is 9 (eight continuation bytes, then a raw byte carrying bits
\* 56-63 of n) if and only if n >= 2^56.
C8_VarUint64RoundTrip ==
    codec.op = "put_get_var_uint64" =>
        /\ codec.same = [val |-> codec.value, len |-> codec.len]
        /\ codec.tight = [val |-> codec.value, len |-> codec.len]
        /\ codec.len \in 1 .. 9
        /\ (codec.len = 9) <=> ~LtPow2(codec.value, 56)
        /\ codec.len = 9 =>
              /\ \A i \in 1 .. 8 : codec.bytes[i] >= 128
              /\ codec.bytes[9] = ByteAt(codec.value, 7)

\* a value with bit 63 set, encoded in nine bytes and decoded back
C8_Witness ==
    /\ codec.op = "put_get_var_uint64"
    /\ 63 \in codec.value /\ codec.len = 9 /\ codec.bytes[9] >= 128
    /\ codec.tight.val = codec.value

SignedOp == codec.op \in {"write_read_var_int32", "write_read_var_int64"}
SignedWidth == IF codec.op = "write_read_var_int32" THEN 32 ELSE 64
SignedCap == IF codec.op = "write_read_var_int32" THEN 5 ELSE 9

\* C9 as stated: the number of bytes written by write_var_int32/64(v) is
\* ceil((bitlen(|v| * 2) + 6) / 7), capped at 5 resp. 9 bytes.
C9_StatedLength ==
    SignedOp =>
        codec.len = Min(SignedCap,
                        CeilDiv(BitLen(Shl(Abs(codec.value, SignedWidth), 1, 65)) + 6, 7))

\* C9: the number of bytes written by write_var_int32/64(v) is
\* max(1, ceil(bitlen(z) / 7)) capped at 5 resp. 9 bytes, where z is 2v for
\* v >= 0 and 2|v| - 1 for v < 0.
C9_ZigZagLength ==
    SignedOp =>
        LET twice == Shl(Abs(codec.value, SignedWidth), 1, 65)
            z == IF (SignedWidth - 1) \in codec.value THEN BSub(twice, {0}, 65) ELSE twice
        IN  codec.len = Min(SignedCap, Max(1, CeilDiv(BitLen(z), 7)))

\* the most negative int64 is written in nine bytes
C9_Witness ==
    /\ codec.op = "write_read_var_int64"
    /\ codec.value = {63} /\ codec.len = 9

\* C10: read_var_int32 after write_var_int32(v) returns v, read_var_int64
\* after write_var_int64(v) returns v, without error, and the reader advances
\* by the number of bytes written; the unsigned varint that was written is
\* the fold (v << 1) ^ (v >> (N - 1)): 2v for v >= 0, the complement of 2v
\* for v < 0.
C10_ZigZagRoundTrip ==
    SignedOp =>
        /\ codec.same = [val |-> codec.value, err |-> "ok", adv |-> codec.len]
        /\ codec.tight = [val |-> codec.value, err |-> "ok", adv |-> codec.len]
        /\ codec.raw = (IF (SignedWidth - 1) \in codec.value
                        THEN BNot(Shl(codec.value, 1, SignedWidth), SignedWidth)
                        ELSE Shl(codec.value, 1, SignedWidth))

\* -1 as an int32, written in one byte and read back
C10_Witness ==
    /\ codec.op = "write_read_var_int32"
    /\ codec.value = Bits(32) /\ codec.raw = {0}
    /\ codec.tight.val = Bits(32) /\ codec.tight.adv = 1

TaggedOp == codec.op \in {"tagged_int64", "tagged_uint64"}
\* v fits in 31 signed bits: -2^30 <= v < 2^30, v taken as an int64 by the
\* signed and as a uint64 by the unsigned encoder
FitsSigned31(v) ==
    IF codec.op = "tagged_int64" THEN v \cap (30 .. 63) \in {{}, 30 .. 63}
    ELSE LtPow2(v, 30)
\* the bytes of an n-byte little-endian word
BytesLE(v, n) == [i \in 1 .. n |-> ByteAt(v, i - 1)]

\* what C11 says about a value that the encoder is to write in 4 bytes (small)
\* or in 9
TaggedAsClaimed(small) ==
    /\ codec.len = (IF small THEN 4 ELSE 9)
    /\ codec.bytes = (IF small THEN BytesLE(Shl(codec.value, 1, 32), 4)
                      ELSE <<1>> \o BytesLE(codec.value, 8))
    /\ small => codec.bytes[1] % 2 = 0
    /\ codec.same = [val |-> codec.value, err |-> "ok", adv |-> codec.len]
    /\ codec.tight = [val |-> codec.value, err |-> "ok", adv |-> codec.len]
    /\ codec.put = [len |-> codec.len, bytes |-> codec.bytes]
    /\ codec.get = [val |-> codec.value, len |-> codec.len]

\* C11 as stated: a tagged int64 or uint64 is written in 4 bytes, as the
\* little-endian word (value << 1), exactly when it fits in 31 signed bits,
\* and otherwise in 9 bytes, 0x01 and the raw value; read_tagged_* returns the
\* value and advances by 4 or 9; put_tagged_* / get_tagged_* agree.
C11_TaggedSigned31 ==
    TaggedOp => TaggedAsClaimed(FitsSigned31(codec.value))

\* C11: as stated for the signed encoder; the unsigned encoder writes 4 bytes
\* exactly when the value is at most 0x7fffffff (31 unsigned bits).
C11_TaggedRoundTrip ==
    TaggedOp =>
        TaggedAsClaimed(IF codec.op = "tagged_int64" THEN FitsSigned31(codec.value)
                        ELSE LtPow2(codec.value, 31))

\* 2^30 as a uint64: four bytes 00 00 00 80, read back
C11_Witness ==
    /\ codec.op = "tagged_uint64" /\ codec.value = {30}
    /\ codec.bytes = <<0, 0, 0, 128>>
    /\ codec.tight = [val |-> {30}, err |-> "ok", adv |-> 4]

\* the bits of the encoding that follow the last character
Padding(str, bytes) == 8 * Len(bytes) - (5 * Len(str) + 1)

\* C12: for every string s over a-z . _ $ |, the empty one included,
\* decode_lower_special(encode_lower_special(s)) = s; the high bit of the first
\* byte is set exactly when 5 or more padding bits follow the last character,
\* so that the bytes hold one 5-bit slot more than s has characters, and the
\* decoder then returns one character less than the bytes have slots.
C12_LowerSpecialRoundTrip ==
    (codec.op = "lower_special" /\ \A i \in 1 .. Len(codec.str) : codec.str[i] \in LowerSpecialChars) =>
        /\ codec.decoded = [val |-> codec.str, err |-> "ok"]
        /\ Len(codec.bytes) = (5 * Len(codec.str) + 1 + 7) \div 8
        /\ codec.bytes[1] >= 128 <=> Padding(codec.str, codec.bytes) >= 5
        /\ (8 * Len(codec.bytes) - 1) \div 5
              = Len(codec.decoded.val) + (IF codec.bytes[1] >= 128 THEN 1 ELSE 0)

\* "a|": 11 bits of characters, 5 bits of padding that read as one more 'a'
C12_Witness ==
    /\ codec.op = "lower_special" /\ codec.str = <<97, 124>>
    /\ Len(codec.bytes) = 2 /\ codec.bytes[1] >= 128
    /\ codec.decoded.val = <<97, 124>>


-----------------------------------------------------------------------------
(* Specification of stream-backed against in-memory reading: Init draws the  *)
(* bytes B and the initial capacity of the stream's buffer and builds an      *)
(* in-memory Buffer over B and a Buffer over a stream that will deliver B.    *)
(* Each action applies one safe read to both buffers, the source handing out  *)
(* at most env.chunk bytes per call, and records for each buffer the unread   *)
(* bytes before the call, reader_index before and after, and what the call    *)
(* returned.  B is a run of 0x81 followed by a run of 0x00: 0x81 is a         *)
(* continuation byte of a varint and an odd first byte of a tagged int64,     *)
(* 0x00 ends a varint and starts the 4-byte form of a tagged int64.           *)

MaxSrcLen == 9    \* bytes in B
MaxInitCap == 2   \* initial capacity of the stream's buffer
MaxChunk == 2     \* bytes the source hands out per call
MaxReadLen == 2   \* length passed to read_bytes / skip, besides UINT32_MAX
MaxOps == 2       \* reads applied in a row

JunkBytes == {0, 255}
Run(byte, n) == [i \in 1 .. n |-> byte]
Sources == UNION {{Run(129, a) \o Run(0, n - a) : a \in 0 .. n} : n \in 0 .. MaxSrcLen}
FixedWidths == {1, 2, 3, 4, 8}
ReadLengths == {FromNat(k) : k \in 0 .. MaxReadLen} \cup {0 .. 31}

\* data_ points into an allocation that the stream has given up
Dangling(b) == b.stream /\ b.data # b.st.alloc

\* A read evaluates env.junk where it reads through a dangling data_ or at an
\* offset >= size_.  No read does the latter (InBounds below is an invariant),
\* so the junk is drawn only when data_ dangles.
Envs(s) ==
    {[chunk |-> c, junk |-> j] :
        c \in 1 .. MaxChunk, j \in IF Dangling(s.str) THEN JunkBytes ELSE {0}}

\* what one call did to one buffer
Outcome(before, r) ==
    [rest |-> SubSeq(before.mem \o before.st.src, before.reader_index + 1,
                     Len(before.mem \o before.st.src)),
     from |-> before.reader_index, to |-> r.b.reader_index,
     val |-> r.val, err |-> r.err, inb |-> r.inb,
     buffered |-> r.b.size, stale |-> Dangling(before)]

Observe(s, op, arg, rm, rs) ==
    [used |-> TRUE, steps |-> s.steps + 1, op |-> op, arg |-> arg,
     mem |-> rm.b, str |-> rs.b,
     out |-> [mem |-> Outcome(s.mem, rm), str |-> Outcome(s.str, rs)]]

InitSio ==
    /\ \E src \in Sources, buffer_size \in 1 .. MaxInitCap :
          sio = [used |-> TRUE, steps |-> 0, op |-> "init", arg |-> {},
                 mem |-> MemBuffer(src),
                 str |-> StreamBuffer(NewStream(src, buffer_size)),
                 out |-> <<>>]
    /\ codec = Unused /\ wctx = Unused /\ wobs = Unused /\ rctx = Unused /\ robs = Unused

MayRead == sio.used /\ sio.steps < MaxOps

ReadFixed ==
    /\ MayRead
    /\ \E n \in FixedWidths, env \in Envs(sio) :
          sio' = Observe(sio, "read_fixed", FromNat(n),
                         read_fixed(sio.mem, n, env), read_fixed(sio.str, n, env))
    /\ UNCHANGED <<codec, wctx, wobs, rctx, robs>>

ReadVarUint32 ==
    /\ MayRead
    /\ \E env \in Envs(sio) :
          sio' = Observe(sio, "read_var_uint32", {},
                         read_var_uint32(sio.mem, env), read_var_uint32(sio.str, env))
    /\ UNCHANGED <<codec, wctx, wobs, rctx, robs>>

ReadVarInt32 ==
    /\ MayRead
    /\ \E env \in Envs(sio) :
          sio' = Observe(sio, "read_var_int32", {},
                         read_var_int32(sio.mem, env), read_var_int32(sio.str, env))
    /\ UNCHANGED <<codec, wctx, wobs, rctx, robs>>

ReadVarUint64 ==
    /\ MayRead
    /\ \E env \in Envs(sio) :
          sio' = Observe(sio, "read_var_uint64", {},
                         read_var_uint64(sio.mem, env), read_var_uint64(sio.str, env))
    /\ UNCHANGED <<codec, wctx, wobs, rctx, robs>>

ReadVarInt64 ==
    /\ MayRead
    /\ \E env \in Envs(sio) :
          sio' = Observe(sio, "read_var_int64", {},
                         read_var_int64(sio.mem, env), read_var_int64(sio.str, env))
    /\ UNCHANGED <<codec, wctx, wobs, rctx, robs>>

ReadTaggedInt64 ==
    /\ MayRead
    /\ \E env \in Envs(sio) :
          sio' = Observe(sio, "read_tagged_int64", {},
                         read_tagged_int64(sio.mem, env), read_tagged_int64(sio.str, env))
    /\ UNCHANGED <<codec, wctx, wobs, rctx, robs>>

ReadTaggedUint64 ==
    /\ MayRead
    /\ \E env \in Envs(sio) :
          sio' = Observe(sio, "read_tagged_uint64", {},
                         read_tagged_uint64(sio.mem, env), read_tagged_uint64(sio.str, env))
    /\ UNCHANGED <<codec, wctx, wobs, rctx, robs>>

ReadVarUint36Small ==
    /\ MayRead
    /\ \E env \in Envs(sio) :
          sio' = Observe(sio, "read_var_uint36_small", {},
                         read_var_uint36_small(sio.mem, env),
                         read_var_uint36_small(sio.str, env))
    /\ UNCHANGED <<codec, wctx, wobs, rctx, robs>>

ReadBytes ==
    /\ MayRead
    /\ \E length \in ReadLengths, env \in Envs(sio) :
          sio' = Observe(sio, "read_bytes", length,
                         read_bytes(sio.mem, length, env), read_bytes(sio.str, length, env))
    /\ UNCHANGED <<codec, wctx, wobs, rctx, robs>>

Skip ==
    /\ MayRead
    /\ \E length \in ReadLengths, env \in Envs(sio) :
          sio' = Observe(sio, "skip", length,
                         skip(sio.mem, length, env), skip(sio.str, length, env))
    /\ UNCHANGED <<codec, wctx, wobs, rctx, robs>>

NextSio ==
    \/ ReadFixed \/ ReadVarUint32 \/ ReadVarInt32 \/ ReadVarUint64 \/ ReadVarInt64
    \/ ReadTaggedInt64 \/ ReadTaggedUint64 \/ ReadVarUint36Small \/ ReadBytes \/ Skip

SpecSio == InitSio /\ [][NextSio]_vars

\* every byte a read has read lay below size_
InBounds == sio.op # "init" => sio.out.mem.inb /\ sio.out.str.inb

-----------------------------------------------------------------------------
(* Properties of stream-backed against in-memory reading *)

Sides == {"mem", "str"}

\* the unread bytes end inside a varint of at most `most` bytes: every one of
\* them is a continuation byte and there are fewer than `most`
Truncated(rest, most) == Len(rest) < most /\ \A i \in 1 .. Len(rest) : rest[i] >= 128

\* the longest encoding a varint read accepts
MostBytes(op) == IF op \in {"read_var_uint64", "read_var_int64"} THEN 9 ELSE 5

\* fewer unread bytes remain than the read needs
UnderRead(op, arg, rest) ==
    CASE op = "read_fixed" -> Len(rest) < ToNat(arg)
      [] op \in {"read_var_uint32", "read_var_int32", "read_var_uint36_small",
                 "read_var_uint64", "read_var_int64"} -> Truncated(rest, MostBytes(op))
      [] op \in {"read_tagged_int64", "read_tagged_uint64"} ->
             Len(rest) < 4 \/ (rest[1] % 2 = 1 /\ Len(rest) < 9)
      [] op \in {"read_bytes", "skip"} -> ~WLeqNat(arg, Len(rest))
      [] OTHER -> FALSE

\* what a read returns when it fails
ZeroValue(op) == IF op = "read_bytes" THEN <<>> ELSE {}

\* C4: each read returns the same value, succeeds or fails alike, and leaves the
\* same reader_index on the stream-backed buffer as on the in-memory buffer.
C4_StreamMatchesMemory ==
    sio.op # "init" =>
        /\ sio.out.str.val = sio.out.mem.val
        /\ (sio.out.str.err = "ok") = (sio.out.mem.err = "ok")
        /\ sio.out.str.to = sio.out.mem.to

\* C5: a read invoked with fewer unread bytes than it needs sets a bounds error
\* (BufferOutOfBound, or OutOfBound where reader_index + length passes
\* UINT32_MAX), returns the zero value, leaves reader_index where it was and
\* reads no byte at an offset >= size.
C5_UnderReadFails ==
    sio.op # "init" =>
        \A side \in Sides :
            UnderRead(sio.op, sio.arg, sio.out[side].rest) =>
                /\ sio.out[side].err \in {"BufferOutOfBound", "OutOfBound"}
                /\ sio.out[side].val = ZeroValue(sio.op)
                /\ sio.out[side].to = sio.out[side].from
                /\ sio.out[side].inb

\* C6: a read_var_uint32, read_var_uint64 or read_var_uint36_small that fails on
\* an input ending inside an encoding (one or more continuation bytes, no
\* terminating byte) leaves reader_index where it was before the call.
C6_TruncatedVarintKeepsReaderIndex ==
    sio.op \in {"read_var_uint32", "read_var_uint64", "read_var_uint36_small"} =>
        \A side \in Sides :
            /\ Len(sio.out[side].rest) >= 1
            /\ Truncated(sio.out[side].rest, MostBytes(sio.op))
            /\ sio.out[side].err # "ok"
            => sio.out[side].to = sio.out[side].from

\* a stream-backed read_var_uint64 has failed after two continuation bytes, which
\* are now buffered
C6_Witness ==
    /\ sio.op = "read_var_uint64"
    /\ sio.out.str.rest = <<129, 129>>
    /\ sio.out.str.err = "BufferOutOfBound"
    /\ sio.out.str.buffered = sio.out.str.from + 2
    /\ sio.out.str.to = sio.out.str.from

-----------------------------------------------------------------------------
(* WriteContext (context.cc): the streaming TypeMeta protocol, write side.    *)
(* A TypeInfo is named by a number 1 .. NumTypes (its address); its type_def  *)
(* is an 8-byte header followed by a body.  A WriteContext is a record        *)
(*   has_first_type_info, first_type_info (0 is nullptr),                     *)
(*   type_info_index_map_active, write_type_info_index_map (key -> index)     *)
(* write_type_meta never reads buffer_: the operators below take the Buffer   *)
(* they append to and return it with the context.                             *)

NumTypes == 65    \* TypeInfo objects; the 65th gets the first two-byte marker
AnyOrder == 2     \* this many types may be the first ones written, in any order
MaxOccur == 3     \* occurrences of one type in one message

\* the size of the bytes that follow the header, held in the header's low byte
meta_size(header) == ToNat(BAnd(header, 0 .. 7))

\* TypeInfo::type_def of the registered type t: header, then the body
BodyLen(t) == 2 + (t % 2)
meta_header(t) == BOr(Shl(FromNat(t), 8, 64), FromNat(BodyLen(t)))
type_def(t) ==
    StoreLE(Filled(8, 0), 0, meta_header(t), 8) \o [i \in 1 .. BodyLen(t) |-> (16 * i + t) % 256]

\* WriteContext::WriteContext
NewWriteContext ==
    [has_first_type_info |-> FALSE, first_type_info |-> 0,
     type_info_index_map_active |-> FALSE, write_type_info_index_map |-> <<>>]

\* write_type_info_index_map_.put(key, value)
put(map, key, value) ==
    IF key \in DOMAIN map THEN [map EXCEPT ![key] = value] ELSE map @@ (key :> value)

write_marker_mut(b, marker, fill) ==
    \* a bug: the marker is always written as one byte
    write_uint8(b, marker, fill)

\* marker < 0x80 ? buffer_.write_uint8(marker) : buffer_.write_var_uint32(marker)
write_marker(b, marker, fill) ==
    IF LtPow2(marker, 7) THEN write_uint8(b, marker, fill)
    ELSE write_var_uint32(b, marker, fill)

\* WriteContext::write_type_meta(const TypeInfo *), from the map lookup on
write_type_meta_mapped(ctx, b, type_info, fill) ==
    IF type_info \in DOMAIN ctx.write_type_info_index_map
    THEN [ctx |-> ctx,
          b |-> write_marker(b, BOr(Shl(FromNat(ctx.write_type_info_index_map[type_info]),
                                        1, 32), {0}), fill)]
    ELSE [ctx |-> [ctx EXCEPT !.write_type_info_index_map =
                       put(@, type_info, Cardinality(DOMAIN @))],
          b |-> write_bytes(
                    write_marker(b, Shl(FromNat(Cardinality(
                                     DOMAIN ctx.write_type_info_index_map)), 1, 32), fill),
                    type_def(type_info), fill)]

\* WriteContext::write_type_meta(const TypeInfo *type_info)
write_type_meta(ctx, b, type_info, fill) ==
    IF ~ctx.type_info_index_map_active
    THEN IF ~ctx.has_first_type_info
         THEN [ctx |-> [ctx EXCEPT !.has_first_type_info = TRUE,
                                   !.first_type_info = type_info],
               b |-> write_bytes(write_uint8(b, {}, fill), type_def(type_info), fill)]
         ELSE IF type_info = ctx.first_type_info
         THEN [ctx |-> ctx, b |-> write_uint8(b, {0}, fill)]
         ELSE write_type_meta_mapped(
                  [ctx EXCEPT !.type_info_index_map_active = TRUE,
                              !.write_type_info_index_map = put(<<>>, ctx.first_type_info, 0)],
                  b, type_info, fill)
    ELSE IF type_info = ctx.first_type_info
    THEN [ctx |-> ctx, b |-> write_uint8(b, {0}, fill)]
    ELSE write_type_meta_mapped(ctx, b, type_info, fill)

WriteContext_reset_mut(ctx) ==
    \* a bug: the first-type slot survives the reset
    [ctx EXCEPT !.write_type_info_index_map = <<>>, !.type_info_index_map_active = FALSE]

\* WriteContext::reset
WriteContext_reset(ctx) == NewWriteContext

-----------------------------------------------------------------------------
(* Specification of the write side.  wctx holds the WriteContext and the      *)
(* writer_index of its buffer_; wobs holds what has been observed of the      *)
(* current message: the bytes the last call appended, the types in the order  *)
(* of their first occurrence, and per type its occurrences, the times its     *)
(* type_def was written in full and the times a bare marker with low bit 1    *)
(* was written for it.  The first AnyOrder types come in any order, later     *)
(* ones in numbering order; a type already written is written again if it is  *)
(* the first, the second or the last of the NumTypes.                         *)

\* the position of t in order, 0 if absent
Position(order, t) ==
    IF \E i \in 1 .. Len(order) : order[i] = t
    THEN CHOOSE i \in 1 .. Len(order) : order[i] = t ELSE 0

\* the marker at the head of the bytes a call appended, and what follows it
Emitted(bytes) ==
    [marker |-> get_var_uint32(bytes, Len(bytes), 0).val,
     tail |-> SubSeq(bytes, get_var_uint32(bytes, Len(bytes), 0).len + 1, Len(bytes))]

Fresh(order) ==
    IF Len(order) < AnyOrder
    THEN (1 .. AnyOrder) \ {order[i] : i \in 1 .. Len(order)}
    ELSE IF Len(order) < NumTypes THEN {Len(order) + 1} ELSE {}

Repeated(o) ==
    {o.order[i] : i \in {j \in {1, 2, NumTypes} : j <= Len(o.order) /\ o.occ[o.order[j]] < MaxOccur}}

Bump(f, t) == IF t \in DOMAIN f THEN [f EXCEPT ![t] = @ + 1] ELSE f @@ (t :> 1)
Keep(f, t) == IF t \in DOMAIN f THEN f ELSE f @@ (t :> 0)

\* the observation after write_type_meta(t) appended `bytes`
Written(o, t, bytes) ==
    [used |-> TRUE, op |-> "write_type_meta", type |-> t, bytes |-> bytes,
     order |-> IF Position(o.order, t) = 0 THEN Append(o.order, t) ELSE o.order,
     occ |-> Bump(o.occ, t),
     full |-> IF Emitted(bytes).tail = type_def(t) THEN Bump(o.full, t) ELSE Keep(o.full, t),
     refs |-> IF Emitted(bytes).tail = <<>> /\ 0 \in Emitted(bytes).marker
              THEN Bump(o.refs, t) ELSE Keep(o.refs, t),
     resets |-> o.resets]

InitWrite ==
    /\ wctx = [used |-> TRUE, ctx |-> NewWriteContext, writer_index |-> 0]
    /\ wobs = [used |-> TRUE, op |-> "init", type |-> 0, bytes |-> <<>>, order |-> <<>>,
               occ |-> <<>>, full |-> <<>>, refs |-> <<>>, resets |-> FALSE]
    /\ codec = Unused /\ rctx = Unused /\ robs = Unused /\ sio = Unused

\* the state after write_type_meta returned r, having appended to an empty Buffer
AfterWrite(t, r) ==
    /\ wctx' = [used |-> TRUE, ctx |-> r.ctx,
                writer_index |-> wctx.writer_index + r.b.writer_index]
    /\ wobs' = Written(wobs, t, SubSeq(r.b.mem, 1, r.b.writer_index))

WriteTypeMeta ==
    /\ wctx.used
    /\ \E t \in Fresh(wobs.order) \cup Repeated(wobs), fill \in FillBytes :
          AfterWrite(t, write_type_meta(wctx.ctx, MemBuffer(<<>>), t, fill))
    /\ UNCHANGED <<codec, rctx, robs, sio>>

ResetWrite ==
    /\ wctx.used /\ wobs.op # "reset"
    /\ wctx' = [used |-> TRUE, ctx |-> WriteContext_reset(wctx.ctx), writer_index |-> 0]
    /\ wobs' = [used |-> TRUE, op |-> "reset", type |-> 0, bytes |-> <<>>, order |-> <<>>,
                occ |-> <<>>, full |-> <<>>, refs |-> <<>>, resets |-> TRUE]
    /\ UNCHANGED <<codec, rctx, robs, sio>>

NextWrite == WriteTypeMeta \/ ResetWrite

SpecWrite == InitWrite /\ [][NextWrite]_vars

-----------------------------------------------------------------------------
(* Properties of the write side *)

\* the varuint32 encoding of a marker
VarUint32Bytes(marker) ==
    SubSeq(put_var_uint32(Filled(8, 0), 0, marker).data, 1,
           put_var_uint32(Filled(8, 0), 0, marker).len)

\* C1: within a message the first occurrence of a type writes a marker with low
\* bit 0 and its full type_def, every later occurrence a marker with low bit 1
\* and nothing else; so a type that occurred k times has had its type_def
\* written once and k - 1 back-references, also in a message after a reset.
C1_TypeDefOncePerMessage ==
    /\ wobs.op = "write_type_meta" =>
          IF wobs.occ[wobs.type] = 1
          THEN /\ 0 \notin Emitted(wobs.bytes).marker
               /\ Emitted(wobs.bytes).tail = type_def(wobs.type)
          ELSE /\ 0 \in Emitted(wobs.bytes).marker
               /\ Emitted(wobs.bytes).tail = <<>>
    /\ \A t \in DOMAIN wobs.occ :
          wobs.full[t] = 1 /\ wobs.refs[t] = wobs.occ[t] - 1

\* in a message after a reset, two types have occurred three times each: two
\* full emissions and four back-references
C1_Witness ==
    /\ wobs.resets /\ wobs.op = "write_type_meta"
    /\ Len(wobs.order) = 2
    /\ \A t \in DOMAIN wobs.occ : wobs.occ[t] = 3 /\ wobs.full[t] = 1 /\ wobs.refs[t] = 2

\* C2: the k-th distinct type of a message (k counted from 0) has index k: the
\* bytes written for it start with the varuint32 encoding of k << 1 at its
\* definition and of (k << 1) | 1 at a back-reference.  The index map is active
\* exactly when two or more distinct types have been written, and then holds
\* every type of the message, the first one included, at its index.
C2_IndexIsOrderOfFirstOccurrence ==
    /\ wobs.op = "write_type_meta" =>
          /\ Emitted(wobs.bytes).marker =
                FromNat(2 * (Position(wobs.order, wobs.type) - 1)
                        + (IF wobs.occ[wobs.type] > 1 THEN 1 ELSE 0))
          /\ SubSeq(wobs.bytes, 1, Len(wobs.bytes) - Len(Emitted(wobs.bytes).tail))
                = VarUint32Bytes(Emitted(wobs.bytes).marker)
    /\ wobs.op # "init" =>
          /\ wctx.ctx.type_info_index_map_active = (Len(wobs.order) >= 2)
          /\ wctx.ctx.type_info_index_map_active =>
                /\ DOMAIN wctx.ctx.write_type_info_index_map = DOMAIN wobs.occ
                /\ \A i \in 1 .. Len(wobs.order) :
                      wctx.ctx.write_type_info_index_map[wobs.order[i]] = i - 1
          /\ Len(wobs.order) >= 1 => wctx.ctx.first_type_info = wobs.order[1]

\* the 65th distinct type, index 64, is written a second time: its marker is
\* 129, the two bytes 0x81 0x01
C2_Witness ==
    /\ wobs.op = "write_type_meta"
    /\ Position(wobs.order, wobs.type) = 65
    /\ wobs.occ[wobs.type] = 2
    /\ wobs.bytes = <<129, 1>>
    /\ wctx.ctx.write_type_info_index_map[wobs.order[1]] = 0

-----------------------------------------------------------------------------
(* MetaStringTable (meta_string.cc): entries_ is the sequence of the decoded  *)
(* strings.  read_string returns [entries, b, val, err].                      *)

k_small_threshold == 16

\* to_meta_encoding(value)
to_meta_encoding(value) ==
    CASE value = 0 -> [val |-> "EXTENDED", err |-> "ok"]
      [] value = 1 -> [val |-> "LOWER_SPECIAL", err |-> "ok"]
      [] value = 2 -> [val |-> "LOWER_UPPER_DIGIT_SPECIAL", err |-> "ok"]
      [] value = 3 -> [val |-> "FIRST_TO_LOWER_SPECIAL", err |-> "ok"]
      [] value = 4 -> [val |-> "ALL_TO_LOWER_SPECIAL", err |-> "ok"]
      [] OTHER -> [val |-> "", err |-> "EncodingError"]

\* MetaStringDecoder::decode(data, len, encoding), for the one encoding that
\* the strings of this model are written in
decode(data, encoding) ==
    IF Len(data) = 0 THEN [val |-> <<>>, err |-> "ok"]
    ELSE decode_lower_special(data)

\* MetaStringTable::MetaStringTable
NewMetaStringTable == <<>>

StringFailed(entries, b, err) == [entries |-> entries, b |-> b, val |-> <<>>, err |-> err]

\* read_string, once decoder.decode has returned d: entries_.push_back
read_string_decoded(entries, b, d) ==
    IF d.err # "ok" THEN StringFailed(entries, b, d.err)
    ELSE [entries |-> Append(entries, d.val), b |-> b, val |-> d.val, err |-> "ok"]

\* read_string, once buffer.read_bytes has returned r
read_string_bytes(entries, r, encoding) ==
    IF r.err # "ok" THEN StringFailed(entries, r.b, r.err)
    ELSE read_string_decoded(entries, r.b, decode(r.val, encoding))

\* read_string, once the encoding byte has been read from b and converted
read_string_encoding(entries, b, enc, len, env) ==
    IF enc.err # "ok" THEN StringFailed(entries, b, enc.err)
    ELSE read_string_bytes(entries, read_bytes(b, len, env), enc.val)

\* read_string, big string layout, once buffer.read_int64 has returned h
read_string_big(entries, h, len, env) ==
    IF h.err # "ok" THEN StringFailed(entries, h.b, h.err)
    ELSE read_string_encoding(entries, h.b, to_meta_encoding(ByteAt(h.val, 0)), len, env)

\* read_string, small string layout, once buffer.read_int8 has returned e
read_string_small(entries, e, len, env) ==
    IF e.err # "ok" THEN StringFailed(entries, e.b, e.err)
    ELSE read_string_encoding(entries, e.b, to_meta_encoding(ByteAt(e.val, 0)), len, env)

\* read_string, once buffer.read_var_uint32 has returned header
read_string_header(entries, header, env) ==
    IF header.err # "ok" THEN StringFailed(entries, header.b, header.err)
    ELSE IF 0 \in header.val
    THEN IF Shr(header.val, 1) = {} \/ ~WLeqNat(Shr(header.val, 1), Len(entries))
         THEN StringFailed(entries, header.b, "InvalidData")
         ELSE [entries |-> entries, b |-> header.b,
               val |-> entries[ToNat(Shr(header.val, 1))], err |-> "ok"]
    ELSE IF ~WLeqNat(Shr(header.val, 1), k_small_threshold)
    THEN read_string_big(entries, read_fixed(header.b, 8, env), Shr(header.val, 1), env)
    ELSE IF Shr(header.val, 1) = {}
    THEN read_string_decoded(entries, header.b, [val |-> <<>>, err |-> "ok"])
    ELSE read_string_small(entries, read_fixed(header.b, 1, env), Shr(header.val, 1), env)

\* MetaStringTable::read_string(buffer, decoder)
read_string(entries, b, env) == read_string_header(entries, read_var_uint32(b, env), env)

MetaStringTable_reset_mut(entries) ==
    \* a bug: the first entry survives
    IF entries = <<>> THEN <<>> ELSE <<Head(entries)>>

\* MetaStringTable::reset
MetaStringTable_reset(entries) == <<>>

-----------------------------------------------------------------------------
(* ReadContext (context.cc): the streaming TypeMeta protocol, read side.      *)
(* A TypeInfo made by read_type_meta is a record [null, header, type_def]:    *)
(* the header it was parsed from and the type_def copied from the locally     *)
(* registered type, empty when there is none.  A ReadContext is a record      *)
(*   buffer, reading_type_infos, has_last_meta_header, last_meta_header,      *)
(*   last_meta_type_info, parsed_type_infos (header -> TypeInfo),             *)
(*   owned_reading_type_infos, meta_string_table                              *)
(* cached_type_infos_ holds the TypeInfos that parsed_type_infos points to.   *)
(* read_type_meta returns [ctx, val, err].                                    *)

k_max_parsed_num_type_defs == 8192

\* the types registered with the reader's TypeResolver
LocalTypes == {1}

NoTypeInfo == [null |-> TRUE, header |-> {}, type_def |-> <<>>]

\* the types that the reader has registered with another schema than the
\* writer's: the resolver finds the local type by the name or id in the parsed
\* definition, and the local type_def has another header and another length
EvolvedTypes == {12}
local_type_def(t) == type_def(t + 1)

\* the TypeInfo that read_type_meta builds from a parsed definition: type_def
\* is copied from the local type, if the resolver finds one
ParsedTypeInfo(header) ==
    [null |-> FALSE, header |-> header,
     type_def |-> IF \E t \in LocalTypes : meta_header(t) = header
                  THEN type_def(CHOOSE t \in LocalTypes : meta_header(t) = header)
                  ELSE IF \E t \in EvolvedTypes : meta_header(t) = header
                  THEN local_type_def(CHOOSE t \in EvolvedTypes : meta_header(t) = header)
                  ELSE <<>>]

\* ReadContext::ReadContext, with buffer_ attached
NewReadContext(buffer) ==
    [buffer |-> buffer, reading_type_infos |-> <<>>, has_last_meta_header |-> FALSE,
     last_meta_header |-> {}, last_meta_type_info |-> NoTypeInfo,
     parsed_type_infos |-> <<>>, owned_reading_type_infos |-> <<>>,
     meta_string_table |-> NewMetaStringTable]

Failed(ctx, b, err) == [ctx |-> [ctx EXCEPT !.buffer = b], val |-> NoTypeInfo, err |-> err]

\* ReadContext::get_type_info_by_index(index)
get_type_info_by_index(ctx, index) ==
    IF index >= Len(ctx.reading_type_infos) THEN Failed(ctx, ctx.buffer, "Invalid")
    ELSE [ctx |-> ctx, val |-> ctx.reading_type_infos[index + 1], err |-> "ok"]

\* read_type_meta on a known header, once the rest of the definition has been
\* skipped with outcome k; `cached` is already in reading_type_infos_
read_type_meta_skipped(ctx, cached, k) ==
    IF k.err # "ok" THEN Failed(ctx, k.b, k.err)
    ELSE [ctx |-> [ctx EXCEPT !.buffer = k.b], val |-> cached, err |-> "ok"]

\* read_type_meta on a known header: skip type_def.size() - 8 bytes if the cached
\* TypeInfo has a type_def of 8 bytes or more, else TypeMeta::skip_bytes
read_type_meta_cached(ctx, cached, header, env) ==
    read_type_meta_skipped(ctx, cached,
        skip(ctx.buffer,
             IF Len(cached.type_def) >= 8 THEN FromNat(Len(cached.type_def) - 8)
             ELSE FromNat(meta_size(header)),
             env))

\* variant: stores the definition in the cache while size() <= the bound
read_type_meta_parsed_mut(ctx, header, p) ==
    IF p.err # "ok" THEN Failed(ctx, p.b, p.err)
    ELSE IF Cardinality(DOMAIN ctx.parsed_type_infos) <= k_max_parsed_num_type_defs
    THEN [ctx |-> [ctx EXCEPT !.buffer = p.b,
                              !.parsed_type_infos = @ @@ (header :> ParsedTypeInfo(header)),
                              !.has_last_meta_header = TRUE,
                              !.last_meta_header = header,
                              !.last_meta_type_info = ParsedTypeInfo(header),
                              !.reading_type_infos = Append(@, ParsedTypeInfo(header))],
          val |-> ParsedTypeInfo(header), err |-> "ok"]
    ELSE [ctx |-> [ctx EXCEPT !.buffer = p.b,
                              !.owned_reading_type_infos = Append(@, ParsedTypeInfo(header)),
                              !.reading_type_infos = Append(@, ParsedTypeInfo(header))],
          val |-> ParsedTypeInfo(header), err |-> "ok"]

\* read_type_meta on a header not seen before, once
\* TypeMeta::from_bytes_with_header has read the rest with outcome p
read_type_meta_parsed(ctx, header, p) ==
    IF p.err # "ok" THEN Failed(ctx, p.b, p.err)
    ELSE IF Cardinality(DOMAIN ctx.parsed_type_infos) < k_max_parsed_num_type_defs
    THEN [ctx |-> [ctx EXCEPT !.buffer = p.b,
                              !.parsed_type_infos = @ @@ (header :> ParsedTypeInfo(header)),
                              !.has_last_meta_header = TRUE,
                              !.last_meta_header = header,
                              !.last_meta_type_info = ParsedTypeInfo(header),
                              !.reading_type_infos = Append(@, ParsedTypeInfo(header))],
          val |-> ParsedTypeInfo(header), err |-> "ok"]
    ELSE [ctx |-> [ctx EXCEPT !.buffer = p.b,
                              !.owned_reading_type_infos = Append(@, ParsedTypeInfo(header)),
                              !.reading_type_infos = Append(@, ParsedTypeInfo(header))],
          val |-> ParsedTypeInfo(header), err |-> "ok"]

\* read_type_meta, once buffer_->read_int64 has returned h
read_type_meta_header(ctx, h, env) ==
    IF h.err # "ok" THEN Failed(ctx, h.b, h.err)
    ELSE IF ctx.has_last_meta_header /\ h.val = ctx.last_meta_header
    THEN read_type_meta_cached(
             [ctx EXCEPT !.buffer = h.b,
                         !.reading_type_infos = Append(@, ctx.last_meta_type_info)],
             ctx.last_meta_type_info, h.val, env)
    ELSE IF h.val \in DOMAIN ctx.parsed_type_infos
    THEN read_type_meta_cached(
             [ctx EXCEPT !.buffer = h.b,
                         !.reading_type_infos = Append(@, ctx.parsed_type_infos[h.val]),
                         !.has_last_meta_header = TRUE,
                         !.last_meta_header = h.val,
                         !.last_meta_type_info = ctx.parsed_type_infos[h.val]],
             ctx.parsed_type_infos[h.val], h.val, env)
    ELSE read_type_meta_parsed([ctx EXCEPT !.buffer = h.b], h.val,
                               read_bytes(h.b, FromNat(meta_size(h.val)), env))

\* read_type_meta, once buffer_->read_var_uint32 has returned index_marker
read_type_meta_marker(ctx, index_marker, env) ==
    IF index_marker.err # "ok" THEN Failed(ctx, index_marker.b, index_marker.err)
    ELSE IF 0 \in index_marker.val
    THEN get_type_info_by_index([ctx EXCEPT !.buffer = index_marker.b],
                                ToNat(Shr(index_marker.val, 1)))
    ELSE read_type_meta_header([ctx EXCEPT !.buffer = index_marker.b],
                               read_fixed(index_marker.b, 8, env), env)

\* ReadContext::read_type_meta
read_type_meta(ctx, env) ==
    read_type_meta_marker(ctx, read_var_uint32(ctx.buffer, env), env)

\* ReadContext::reset
ReadContext_reset(ctx) ==
    [ctx EXCEPT !.reading_type_infos = <<>>,
                !.owned_reading_type_infos = <<>>,
                !.meta_string_table = MetaStringTable_reset(@)]

-----------------------------------------------------------------------------
(* Specification of the read side.  A message is a concatenation of items:    *)
(* a definition (marker with low bit 0, then the type_def of type 1, which    *)
(* the reader has registered, or of type 2, which it has not), a definition   *)
(* cut off after its header, and a back-reference (marker with low bit 1).    *)
(* rctx holds the ReadContext, attached to the message; robs holds, for the   *)
(* last call, reading_type_infos before it, what the unread bytes started     *)
(* with, what the call returned, and the TypeInfos that the calls of this     *)
(* message which read a definition and succeeded have returned so far.        *)

MaxItems == 3     \* items in a message
MaxRefIndex == 1  \* largest index of a back-reference item
MaxMessages == 2  \* messages read with one ReadContext

WireTypes == {1, 2}
Items ==
    {[kind |-> k, type |-> t, index |-> 0] : k \in {"def", "cut"}, t \in WireTypes}
    \cup {[kind |-> "ref", type |-> 0, index |-> i] : i \in 0 .. MaxRefIndex}

\* the bytes of an item that follows n definitions
ItemBytes(item, n) ==
    CASE item.kind = "def" -> VarUint32Bytes(FromNat(2 * n)) \o type_def(item.type)
      [] item.kind = "cut" -> VarUint32Bytes(FromNat(2 * n)) \o SubSeq(type_def(item.type), 1, 8)
      [] OTHER -> VarUint32Bytes(FromNat(2 * item.index + 1))

RECURSIVE MessageBytes(_, _)
MessageBytes(items, n) ==
    IF items = <<>> THEN <<>>
    ELSE ItemBytes(Head(items), n)
         \o MessageBytes(Tail(items), IF Head(items).kind = "ref" THEN n ELSE n + 1)

Messages == {MessageBytes(m, 0) : m \in UNION {[1 .. n -> Items] : n \in 0 .. MaxItems}}

\* the observation after a call that found `marker` at the reader index and
\* returned r
Returned(o, before, marker, r) ==
    [used |-> TRUE, op |-> "read_type_meta", messages |-> o.messages,
     before |-> before,
     kind |-> IF marker.err # "ok" THEN "none"
              ELSE IF 0 \in marker.val THEN "ref" ELSE "def",
     index |-> ToNat(Shr(marker.val, 1)),
     val |-> r.val, err |-> r.err,
     defs_before |-> o.defs,
     defs |-> IF marker.err = "ok" /\ 0 \notin marker.val /\ r.err = "ok"
              THEN Append(o.defs, r.val) ELSE o.defs]

InitRead ==
    /\ \E message \in Messages :
          rctx = [used |-> TRUE, ctx |-> NewReadContext(MemBuffer(message))]
    /\ robs = [used |-> TRUE, op |-> "init", messages |-> 1, before |-> <<>>,
               kind |-> "none", index |-> 0, val |-> NoTypeInfo, err |-> "ok",
               defs_before |-> <<>>, defs |-> <<>>]
    /\ codec = Unused /\ wctx = Unused /\ wobs = Unused /\ sio = Unused

\* the state after read_type_meta returned r
AfterRead(marker, r) ==
    /\ rctx' = [used |-> TRUE, ctx |-> r.ctx]
    /\ robs' = Returned(robs, rctx.ctx.reading_type_infos, marker, r)

ReadTypeMeta ==
    /\ rctx.used
    /\ \E junk \in JunkBytes :
          AfterRead(read_var_uint32(rctx.ctx.buffer, [chunk |-> 1, junk |-> junk]),
                    read_type_meta(rctx.ctx, [chunk |-> 1, junk |-> junk]))
    /\ UNCHANGED <<codec, wctx, wobs, sio>>

\* reset, then the next message is attached
ResetRead ==
    /\ rctx.used /\ robs.messages < MaxMessages
    /\ \E message \in Messages :
          rctx' = [used |-> TRUE,
                   ctx |-> [ReadContext_reset(rctx.ctx) EXCEPT !.buffer = MemBuffer(message)]]
    /\ robs' = [used |-> TRUE, op |-> "reset", messages |-> robs.messages + 1,
                before |-> <<>>, kind |-> "none", index |-> 0, val |-> NoTypeInfo,
                err |-> "ok", defs_before |-> <<>>, defs |-> <<>>]
    /\ UNCHANGED <<codec, wctx, wobs, sio>>

NextRead == ReadTypeMeta \/ ResetRead

SpecRead == InitRead /\ [][NextRead]_vars

-----------------------------------------------------------------------------
(* Properties of the read side *)

\* C3: a call that reads an inline definition appends exactly the TypeInfo it
\* returns to reading_type_infos; a call that reads a back-reference leaves
\* reading_type_infos as it was, returns the TypeInfo of the (i+1)-th definition
\* read in this message if its index i is below the number of definitions read
\* so far, and returns an error otherwise.
C3_BackRefIsNthDefinition ==
    robs.op = "read_type_meta" =>
        /\ robs.kind = "def" /\ robs.err = "ok" =>
              rctx.ctx.reading_type_infos = Append(robs.before, robs.val)
        /\ robs.kind = "ref" =>
              /\ rctx.ctx.reading_type_infos = robs.before
              /\ IF robs.index < Len(robs.defs_before)
                 THEN robs.err = "ok" /\ robs.val = robs.defs_before[robs.index + 1]
                 ELSE robs.err # "ok"

\* a definition whose header is known was cut off: the call failed, yet
\* reading_type_infos has grown
FailedDefinitionAppended ==
    /\ robs.op = "read_type_meta" /\ robs.kind = "def" /\ robs.err # "ok"
    /\ rctx.ctx.reading_type_infos # robs.before

\* after reset the context is as ReadContext::ReadContext leaves it, but for
\* the buffer
ResetIsFresh ==
    robs.op = "reset" => rctx.ctx = NewReadContext(rctx.ctx.buffer)

\* a read that fails in a message of which nothing has been read yet leaves
\* reading_type_infos empty, as it does in a fresh context
FirstFailureAsFresh ==
    (/\ robs.op = "read_type_meta" /\ robs.err # "ok"
     /\ robs.before = <<>> /\ robs.defs_before = <<>>)
        => rctx.ctx.reading_type_infos = <<>>

\* C18: ReadContext::reset leaves reading_type_infos and the meta-string table
\* empty and no entry of an earlier message in the parsed-meta cache and in
\* the last-seen-header slot, so that the next message is read as by a fresh
\* context.
C18_ResetClearsMessageState == ResetIsFresh /\ FirstFailureAsFresh

-----------------------------------------------------------------------------
(* Specification of the meta strings of a message.  A message is a            *)
(* concatenation of items: an inline string (header len << 1, then the        *)
(* encoding byte and the bytes, or for more than 16 bytes an 8-byte hash      *)
(* whose low byte is the encoding and the bytes), an inline string with an    *)
(* encoding byte that is none, an inline string whose header promises more    *)
(* bytes than it brings, and a reference (header (id << 1) | 1).  rctx holds  *)
(* the ReadContext as in SpecRead; robs holds, for the last call, the table   *)
(* and reader_index before it, what the call returned and the strings that    *)
(* the successful inline reads since the last reset have returned.            *)

MaxStrItems == 3  \* items in a message
MaxRefId == 2     \* largest id of a reference item

\* "", "a" and 27 times 'z', which takes 17 bytes
InlineStrings == {<<>>, <<97>>, [i \in 1 .. 27 |-> 122]}

StringItems ==
    {[kind |-> "str", str |-> str, id |-> 0] : str \in InlineStrings}
    \cup {[kind |-> k, str |-> <<>>, id |-> 0] : k \in {"bad", "cut"}}
    \cup {[kind |-> "ref", str |-> <<>>, id |-> id] : id \in 0 .. MaxRefId}

\* an inline string of encoded bytes `bytes`
InlineBytes(bytes) ==
    IF bytes = <<>> THEN <<0>>
    ELSE IF Len(bytes) > k_small_threshold
    THEN VarUint32Bytes(FromNat(2 * Len(bytes))) \o <<1, 2, 3, 4, 5, 6, 7, 8>> \o bytes
    ELSE VarUint32Bytes(FromNat(2 * Len(bytes))) \o <<1>> \o bytes

StringItemBytes(item) ==
    CASE item.kind = "str" ->
            InlineBytes(IF item.str = <<>> THEN <<>> ELSE encode_lower_special(item.str))
      [] item.kind = "bad" -> <<2, 9, 0>>
      [] item.kind = "cut" -> <<6, 1, 0>>
      [] OTHER -> VarUint32Bytes(FromNat(2 * item.id + 1))

RECURSIVE StringMessageBytes(_)
StringMessageBytes(items) ==
    IF items = <<>> THEN <<>>
    ELSE StringItemBytes(Head(items)) \o StringMessageBytes(Tail(items))

StringMessages ==
    {StringMessageBytes(m) : m \in UNION {[1 .. n -> StringItems] : n \in 0 .. MaxStrItems}}

InitStrings ==
    /\ \E message \in StringMessages :
          rctx = [used |-> TRUE, ctx |-> NewReadContext(MemBuffer(message))]
    /\ robs = [used |-> TRUE, op |-> "init", messages |-> 1, before |-> <<>>,
               from |-> 0, kind |-> "none", id |-> 0, val |-> <<>>, err |-> "ok",
               strs_before |-> <<>>, strs |-> <<>>]
    /\ codec = Unused /\ wctx = Unused /\ wobs = Unused /\ sio = Unused

\* the state after meta_string_table_.read_string(*buffer_, decoder) found
\* `header` at the reader index and returned r
AfterReadString(header, r) ==
    /\ rctx' = [used |-> TRUE,
                ctx |-> [rctx.ctx EXCEPT !.buffer = r.b, !.meta_string_table = r.entries]]
    /\ robs' = [used |-> TRUE, op |-> "read_string", messages |-> robs.messages,
                before |-> rctx.ctx.meta_string_table,
                from |-> rctx.ctx.buffer.reader_index,
                kind |-> IF header.err # "ok" THEN "none"
                         ELSE IF 0 \in header.val THEN "ref" ELSE "str",
                id |-> ToNat(Shr(header.val, 1)),
                val |-> r.val, err |-> r.err,
                strs_before |-> robs.strs,
                strs |-> IF header.err = "ok" /\ 0 \notin header.val /\ r.err = "ok"
                         THEN Append(robs.strs, r.val) ELSE robs.strs]

ReadString ==
    /\ rctx.used
    /\ AfterReadString(read_var_uint32(rctx.ctx.buffer, NoEnv),
                       read_string(rctx.ctx.meta_string_table, rctx.ctx.buffer, NoEnv))
    /\ UNCHANGED <<codec, wctx, wobs, sio>>

\* ReadContext::reset, then the next message is attached
ResetStrings ==
    /\ rctx.used /\ robs.messages < MaxMessages
    /\ \E message \in StringMessages :
          rctx' = [used |-> TRUE,
                   ctx |-> [ReadContext_reset(rctx.ctx) EXCEPT !.buffer = MemBuffer(message)]]
    /\ robs' = [used |-> TRUE, op |-> "reset", messages |-> robs.messages + 1,
                before |-> rctx.ctx.meta_string_table, from |-> 0, kind |-> "none",
                id |-> 0, val |-> <<>>, err |-> "ok",
                strs_before |-> <<>>, strs |-> <<>>]
    /\ UNCHANGED <<codec, wctx, wobs, sio>>

NextStrings == ReadString \/ ResetStrings

SpecStrings == InitStrings /\ [][NextStrings]_vars

-----------------------------------------------------------------------------
(* Properties of the meta string table *)

\* C13: the table holds exactly the strings that the successful inline reads
\* since the last reset returned, in order, so the n-th of them has id n (the
\* empty string included); a reference with 1 <= id <= number of entries
\* returns the string with that id, consumes only the header and adds no
\* entry; a reference with id 0 or id above the number of entries fails with
\* InvalidData; after reset the table is empty.
C13_MetaStringIds ==
    /\ rctx.ctx.meta_string_table = robs.strs
    /\ robs.op = "reset" => rctx.ctx.meta_string_table = <<>>
    /\ (robs.op = "read_string" /\ robs.kind = "str" /\ robs.err = "ok") =>
          /\ Len(robs.strs) = Len(robs.strs_before) + 1
          /\ rctx.ctx.meta_string_table[Len(robs.strs)] = robs.val
    /\ (robs.op = "read_string" /\ robs.kind = "ref") =>
          /\ rctx.ctx.meta_string_table = robs.before
          /\ IF robs.id >= 1 /\ robs.id <= Len(robs.strs_before)
             THEN /\ robs.err = "ok" /\ robs.val = robs.strs_before[robs.id]
                  /\ rctx.ctx.buffer.reader_index = robs.from + 1
             ELSE robs.err = "InvalidData"

\* second message: "" got id 1 and "a" id 2, and a reference with id 2
\* returned "a", although the first message had left three entries
C13_Witness ==
    /\ robs.op = "read_string" /\ robs.messages = 2 /\ robs.kind = "ref" /\ robs.id = 2
    /\ robs.strs_before = <<<<>>, <<97>>>> /\ robs.val = <<97>> /\ robs.err = "ok"
    /\ rctx.ctx.buffer.reader_index = 5

-----------------------------------------------------------------------------
(* ForyInputStream (stream.cc) and the Buffers it is bound to.  The reader    *)
(* with its buffers is a record                                               *)
(*   src       the bytes the source has not handed out yet                    *)
(*   rdbuf     stream_->rdbuf() != nullptr                                     *)
(*   cap       data_.size(), a word                                           *)
(*   bytes     data_[0 .. size_) of the bound buffer                           *)
(*   initial_buffer_size                                                      *)
(*   buffer    buffer_: the index of the bound Buffer, 0 for owned_buffer_     *)
(*   bufs      the Buffers: size, reader_index, writer_index and              *)
(*             stream_reader (stream_reader_ != nullptr)                       *)
(*   data      data_ of each Buffer: "null", "caller" (memory of the caller),  *)
(*             "data_" (data_.data() of the reader) or "old" (an array the     *)
(*             reader had before it resized data_)                             *)
(* The Buffer functions that stream.cc calls are those of buffer.h, with the   *)
(* reader's fill_buffer as the stream's and the bound buffer's fields as the   *)
(* stream's data(), size() and reader_index().                                 *)

nullptr == -1

\* Buffer::Buffer()
NewBuffer == [size |-> 0, reader_index |-> 0, writer_index |-> 0, stream_reader |-> FALSE]

\* ForyInputStream::remaining_size
ForyInputStream_remaining_size(s) ==
    s.bufs[s.buffer].size - s.bufs[s.buffer].reader_index

\* data_.resize(new_size), which may move the array, followed by
\* buffer_->data_ = data_.data()
resize(s, new_size) ==
    [s EXCEPT !.cap = new_size,
              !.data = [i \in DOMAIN @ |-> IF i = s.buffer THEN "data_"
                                           ELSE IF @[i] = "data_" THEN "old" ELSE @[i]]]

\* ForyInputStream::reserve(new_size)
ForyInputStream_reserve(s, new_size) == resize(s, new_size)

\* ForyInputStream::bind_buffer(buffer); owned_buffer_ is never null
ForyInputStream_bind_buffer(s, buffer) ==
    LET target == IF buffer = nullptr THEN 0 ELSE buffer
    IN  IF s.buffer = target
        THEN [s EXCEPT !.bufs[target].stream_reader = TRUE, !.data[target] = "data_"]
        ELSE IF s.buffer # nullptr
        THEN [s EXCEPT !.bufs[target] = [s.bufs[s.buffer] EXCEPT !.stream_reader = TRUE],
                       !.bufs[s.buffer].stream_reader = FALSE,
                       !.buffer = target, !.data[target] = "data_"]
        ELSE [s EXCEPT !.bufs[target] = [NewBuffer EXCEPT !.stream_reader = TRUE],
                       !.buffer = target, !.data[target] = "data_"]

\* ForyInputStream::ForyInputStream(stream, buffer_size); bufs[1] is a Buffer
\* of the caller
NewForyInputStream(src, rdbuf, buffer_size, other) ==
    ForyInputStream_bind_buffer(
        [src |-> src, rdbuf |-> rdbuf, cap |-> FromNat(Max(buffer_size, 1)),
         bytes |-> <<>>, initial_buffer_size |-> Max(buffer_size, 1),
         buffer |-> nullptr, bufs |-> [i \in 0 .. 1 |-> IF i = 0 THEN NewBuffer ELSE other],
         data |-> [i \in 0 .. 1 |-> IF i = 1 /\ other.size > 0 THEN "caller" ELSE "null"]],
        nullptr)

\* ForyInputStream::fill_buffer(min_fill_size) up to its loop: "ok" and an
\* error are returns, "loop" enters the loop
fill_buffer_begin(s, min_fill_size) ==
    IF min_fill_size = {} \/ WLeqNat(min_fill_size, ForyInputStream_remaining_size(s))
    THEN [s |-> s, res |-> "ok"]
    ELSE LET deficit == BSub(min_fill_size, FromNat(ForyInputStream_remaining_size(s)), 32)
             required == BAdd(FromNat(s.bufs[s.buffer].size), deficit, 64)
             doubled == Shl(s.cap, 1, 64)
             new_size == IF BLeq(required, doubled) THEN doubled ELSE required
             s1 == IF BLeq(required, s.cap) THEN s
                   ELSE ForyInputStream_reserve(
                            s, IF ExceedsU32(new_size) THEN Bits(32) ELSE new_size)
         IN  IF ExceedsU32(required) THEN [s |-> s, res |-> "OutOfBound"]
             ELSE IF ~s.rdbuf THEN [s |-> s1, res |-> "IoError"]
             ELSE [s |-> s1, res |-> "loop"]

\* source->sgetn(data_.data() + write_pos, writable): the number of bytes a
\* source that hands out at most `chunk` bytes per call returns
sgetn(s, writable, chunk) ==
    Min(Len(s.src), IF WLeqNat(writable, chunk) THEN ToNat(writable) ELSE chunk)

fill_buffer_read_mut(s, min_fill_size, got) ==
    \* a bug: the bytes read go to the front of the array
    IF got <= 0 THEN [s |-> s, res |-> "BufferOutOfBound"]
    ELSE [s |-> [s EXCEPT !.bytes = SubSeq(s.src, 1, got) \o @,
                          !.src = SubSeq(@, got + 1, Len(@)),
                          !.bufs[s.buffer].size = @ + got],
          res |-> IF WLeqNat(min_fill_size, ForyInputStream_remaining_size(s) + got)
                  THEN "ok" ELSE "loop"]

\* one iteration of the loop of fill_buffer, in which sgetn returned
\* got bytes, and the loop test that follows it
fill_buffer_read(s, min_fill_size, got) ==
    IF got <= 0 THEN [s |-> s, res |-> "BufferOutOfBound"]
    ELSE [s |-> [s EXCEPT !.bytes = @ \o SubSeq(s.src, 1, got),
                          !.src = SubSeq(@, got + 1, Len(@)),
                          !.bufs[s.buffer].size = @ + got],
          res |-> IF WLeqNat(min_fill_size, ForyInputStream_remaining_size(s) + got)
                  THEN "ok" ELSE "loop"]

\* Buffer::fill_to(target_size) of Buffer id where it does not call
\* fill_buffer: target_size <= size_, or no stream
view_fill_to_kept(s, id, target_size) ==
    [s |-> s, ok |-> target_size <= s.bufs[id].size, err |-> "ok"]

\* Buffer::fill_to of Buffer id, once fill_buffer has returned res
view_fill_to_filled(s, id, res) ==
    IF res # "ok" THEN [s |-> s, ok |-> FALSE, err |-> res]
    ELSE [s |-> [s EXCEPT !.bufs[id].writer_index = s.bufs[id].size],
          ok |-> TRUE, err |-> "ok"]

\* Buffer::ensure_size(target_size) of Buffer id, f being what fill_to returned
view_ensure_size(f, id, target_size) ==
    IF target_size <= f.s.bufs[id].size THEN [s |-> f.s, ok |-> TRUE, err |-> "ok"]
    ELSE IF ~f.s.bufs[id].stream_reader \/ f.ok
    THEN [s |-> f.s, ok |-> FALSE, err |-> "BufferOutOfBound"]
    ELSE [s |-> f.s, ok |-> FALSE, err |-> f.err]

\* Buffer::ensure_readable(length) of Buffer id
view_ensure_readable(f, id, length) ==
    LET e == view_ensure_size(f, id, f.s.bufs[id].reader_index + length)
    IN  IF ~e.ok /\ e.err = "ok" THEN [e EXCEPT !.err = "BufferOutOfBound"] ELSE e

\* ForyInputStream::read_to(dst, length); val is what dst receives
ForyInputStream_read_to(f, length) ==
    IF length = 0 THEN [s |-> f.s, err |-> "ok", val |-> <<>>, aborted |-> FALSE]
    ELSE LET e == view_ensure_readable(f, f.s.buffer, length)
             r == e.s.bufs[e.s.buffer].reader_index
         IN  IF ~e.ok THEN [s |-> e.s, err |-> e.err, val |-> <<>>, aborted |-> FALSE]
             ELSE [s |-> [e.s EXCEPT !.bufs[e.s.buffer].reader_index = r + length],
                   err |-> "ok", val |-> SubSeq(e.s.bytes, r + 1, r + length),
                   aborted |-> FALSE]

\* Buffer::increase_reader_index(diff, error) of Buffer id
view_increase_reader_index(f, id, diff) ==
    LET target == f.s.bufs[id].reader_index + diff
    IN  IF target > f.s.bufs[id].size
        THEN IF ~f.s.bufs[id].stream_reader \/ f.ok \/ f.err = "ok"
             THEN [s |-> f.s, err |-> "BufferOutOfBound", val |-> <<>>, aborted |-> FALSE]
             ELSE [s |-> f.s, err |-> f.err, val |-> <<>>, aborted |-> FALSE]
        ELSE [s |-> [f.s EXCEPT !.bufs[id].reader_index = target],
              err |-> "ok", val |-> <<>>, aborted |-> FALSE]

\* ForyInputStream::skip(size)
ForyInputStream_skip(f, size) ==
    IF size = 0 THEN [s |-> f.s, err |-> "ok", val |-> <<>>, aborted |-> FALSE]
    ELSE view_increase_reader_index(f, f.s.buffer, size)

\* Buffer::reader_index(reader_index) of Buffer id; a failed FORY_CHECK ends
\* the program
view_reader_index(f, id, reader_index) ==
    IF reader_index > f.s.bufs[id].size
    THEN [s |-> f.s, err |-> "ok", val |-> <<>>, aborted |-> TRUE]
    ELSE [s |-> [f.s EXCEPT !.bufs[id].reader_index = reader_index],
          err |-> "ok", val |-> <<>>, aborted |-> FALSE]

\* Buffer::writer_index(writer_index) of Buffer id: the only check is against
\* UINT32_MAX
view_writer_index(s, id, writer_index) ==
    IF FromNat(writer_index) = Bits(32)
    THEN [s |-> s, err |-> "ok", val |-> <<>>, aborted |-> TRUE]
    ELSE [s |-> [s EXCEPT !.bufs[id].writer_index = writer_index],
          err |-> "ok", val |-> <<>>, aborted |-> FALSE]

\* Buffer::increase_writer_index(diff) of Buffer id: writer_index_ + diff is a
\* 32-bit sum
view_increase_writer_index(s, id, diff) ==
    view_writer_index(s, id, ToNat(BAdd(FromNat(s.bufs[id].writer_index), FromNat(diff), 32)))

ForyInputStream_unread_mut(s, size) ==
    \* a bug: no check against reader_index_
    [s |-> [s EXCEPT !.bufs[s.buffer].reader_index = @ - size],
     err |-> "ok", val |-> <<>>, aborted |-> FALSE]

\* ForyInputStream::unread(size)
ForyInputStream_unread(s, size) ==
    IF size > s.bufs[s.buffer].reader_index
    THEN [s |-> s, err |-> "BufferOutOfBound", val |-> <<>>, aborted |-> FALSE]
    ELSE [s |-> [s EXCEPT !.bufs[s.buffer].reader_index = @ - size],
          err |-> "ok", val |-> <<>>, aborted |-> FALSE]

\* shrink_buffer: the capacity to shrink to
target_capacity(s, remaining) ==
    IF WLeqNat(s.cap, s.initial_buffer_size) THEN s.cap
    ELSE IF remaining = 0 THEN FromNat(s.initial_buffer_size)
    ELSE IF BLeq(FromNat(remaining), Shr(s.cap, 2))
    THEN FromNat(Max(s.initial_buffer_size, Max(remaining * 2, 1)))
    ELSE s.cap

\* ForyInputStream::shrink_buffer; buffer_ is never null
ForyInputStream_shrink_buffer(s) ==
    LET read_pos == s.bufs[s.buffer].reader_index
        remaining == ForyInputStream_remaining_size(s)
        moved == IF read_pos > 0
                 THEN [s EXCEPT !.bytes = SubSeq(@, read_pos + 1, read_pos + remaining),
                                !.bufs[s.buffer].reader_index = 0,
                                !.bufs[s.buffer].size = remaining,
                                !.bufs[s.buffer].writer_index = remaining]
                 ELSE s
    IN  IF BLeq(s.cap, target_capacity(s, remaining)) THEN moved
        ELSE resize(moved, target_capacity(s, remaining))

-----------------------------------------------------------------------------
(* SpecStream: a ForyInputStream over a source of numbered bytes, its own     *)
(* Buffer (0) and a Buffer of the caller (1).  A call that has to fill runs   *)
(* the loop of fill_buffer one source read per step (pc = "fill"); its caller *)
(* continues when the loop is left.  sio.last is the last call that returned  *)
(* and its error code; frame.synced records that the call was made with       *)
(* writer_index = size.                                                       *)

MaxStreamSrc == 2
MaxStreamArg == 2
MaxStreamBuf == 1

StreamSrcs == {[i \in 1 .. n |-> i] : n \in 0 .. MaxStreamSrc}

\* Buffer() and a Buffer over two bytes of the caller
CallerBuffers == {NewBuffer, [NewBuffer EXCEPT !.size = 2, !.writer_index = 2]}

NoFrame == [op |-> "none", err |-> "ok"]

InitStream ==
    /\ codec = Unused /\ wctx = Unused /\ wobs = Unused /\ rctx = Unused /\ robs = Unused
    /\ \E src \in StreamSrcs, rdbuf \in BOOLEAN, buffer_size \in 0 .. MaxStreamBuf, other \in CallerBuffers :
           sio = [used |-> TRUE, pc |-> "idle", frame |-> NoFrame, last |-> NoFrame,
                  s |-> NewForyInputStream(src, rdbuf, buffer_size, other)]

StreamTarget(s, op, id, arg) ==
    IF op = "reader_index" THEN arg ELSE s.bufs[id].reader_index + arg

\* the call reaches ForyInputStream::fill_buffer
StreamFills(s, op, id, arg) ==
    \/ op = "fill_buffer"
    \/ /\ op \in {"read_to", "skip", "increase_reader_index", "reader_index"}
       /\ s.bufs[id].stream_reader
       /\ StreamTarget(s, op, id, arg) > s.bufs[id].size

\* the argument of fill_buffer: the caller's, or fill_to's
\* target_size - reader_index_
StreamMin(s, op, id, arg) ==
    IF op = "fill_buffer" THEN arg
    ELSE FromNat(StreamTarget(s, op, id, arg) - s.bufs[id].reader_index)

\* what the caller of fill_buffer sees when it returns res
StreamFilled(s, op, id, res) ==
    IF op = "fill_buffer" THEN [s |-> s, ok |-> res = "ok", err |-> res]
    ELSE view_fill_to_filled(s, id, res)

StreamResult(s, err) == [s |-> s, err |-> err, val |-> <<>>, aborted |-> FALSE]

\* the rest of the call, f being what fill_to or fill_buffer returned
StreamReturn(op, id, arg, f) ==
    CASE op = "fill_buffer" -> StreamResult(f.s, f.err)
      [] op = "read_to" -> ForyInputStream_read_to(f, arg)
      [] op = "skip" -> ForyInputStream_skip(f, arg)
      [] op = "increase_reader_index" -> view_increase_reader_index(f, id, arg)
      [] op = "reader_index" -> view_reader_index(f, id, arg)
      [] op = "unread" -> ForyInputStream_unread(f.s, arg)
      [] op = "writer_index" -> view_writer_index(f.s, id, arg)
      [] op = "increase_writer_index" -> view_increase_writer_index(f.s, id, arg)
      [] op = "shrink_buffer" -> StreamResult(ForyInputStream_shrink_buffer(f.s), "ok")
      [] op = "bind_buffer" -> StreamResult(ForyInputStream_bind_buffer(f.s, arg), "ok")

StreamDone(frame, r) ==
    sio' = [used |-> TRUE, pc |-> IF r.aborted THEN "aborted" ELSE "idle",
            frame |-> NoFrame, s |-> r.s,
            last |-> [op |-> frame.op, err |-> r.err]]

StreamBegun(frame, g) ==
    IF g.res = "loop"
    THEN sio' = [sio EXCEPT !.pc = "fill", !.frame = frame, !.s = g.s, !.last = NoFrame]
    ELSE StreamDone(frame, StreamReturn(frame.op, frame.id, frame.arg,
                                        StreamFilled(g.s, frame.op, frame.id, g.res)))

StreamCall(op, id, arg) ==
    LET frame == [op |-> op, id |-> id, arg |-> arg,
                  min |-> StreamMin(sio.s, op, id, arg),
                  synced |-> sio.s.bufs[id].writer_index = sio.s.bufs[id].size]
    IN  /\ sio.pc = "idle"
        /\ UNCHANGED <<codec, wctx, wobs, rctx, robs>>
        /\ IF StreamFills(sio.s, op, id, arg)
           THEN StreamBegun(frame, fill_buffer_begin(sio.s, frame.min))
           ELSE StreamDone(frame, StreamReturn(op, id, arg,
                                   view_fill_to_kept(sio.s, id, StreamTarget(sio.s, op, id, arg))))

StreamStepped(frame, g) ==
    IF g.res = "loop"
    THEN sio' = [sio EXCEPT !.frame = frame, !.s = g.s]
    ELSE \E r \in {StreamReturn(frame.op, frame.id, frame.arg,
                                StreamFilled(g.s, frame.op, frame.id, g.res))} :
             StreamDone(frame, r)

\* data_.size() - write_pos in 32 bits, write_pos being size_ of the bound
\* buffer: the sum of data_.size() and the two's complement of write_pos
writable(s) ==
    CHOOSE diff \in {BAdd(s.cap, neg, 32) :
                        neg \in {BAdd(BNot(FromNat(s.bufs[s.buffer].size), 32), {0}, 32)}} : TRUE

\* one iteration of the loop of fill_buffer
FillRead ==
    /\ sio.pc = "fill"
    /\ UNCHANGED <<codec, wctx, wobs, rctx, robs>>
    /\ \E chunk \in 1 .. MaxChunk :
           \E asked \in {writable(sio.s)} :
               \E got \in {sgetn(sio.s, asked, chunk)} :
                   \E g \in {fill_buffer_read(sio.s, sio.frame.min, got)} :
                       StreamStepped(sio.frame, g)

FillBuffer ==
    \E min_fill_size \in {FromNat(n) : n \in 0 .. MaxStreamArg} \cup {Bits(32)} :
        StreamCall("fill_buffer", sio.s.buffer, min_fill_size)

ReadTo == \E length \in 0 .. MaxStreamArg : StreamCall("read_to", sio.s.buffer, length)

StreamSkip == \E size \in 0 .. MaxStreamArg : StreamCall("skip", sio.s.buffer, size)

Unread == \E size \in 0 .. MaxStreamArg : StreamCall("unread", sio.s.buffer, size)

ShrinkBuffer == StreamCall("shrink_buffer", sio.s.buffer, 0)

BindBuffer == \E buffer \in {nullptr, 0, 1} : StreamCall("bind_buffer", sio.s.buffer, buffer)

\* Buffer::reader_index(n) and Buffer::increase_reader_index(n) on get_buffer()
SetReaderIndex ==
    \E reader_index \in 0 .. MaxStreamArg :
        StreamCall("reader_index", sio.s.buffer, reader_index)

IncreaseReaderIndex ==
    \E diff \in 0 .. MaxStreamArg :
        StreamCall("increase_reader_index", sio.s.buffer, diff)

\* Buffer::writer_index(n) and Buffer::increase_writer_index(n) on get_buffer()
SetWriterIndex ==
    \E writer_index \in 0 .. MaxStreamArg :
        StreamCall("writer_index", sio.s.buffer, writer_index)

IncreaseWriterIndex ==
    \E diff \in 0 .. MaxStreamArg :
        /\ sio.s.bufs[sio.s.buffer].writer_index + diff <= MaxStreamArg
        /\ StreamCall("increase_writer_index", sio.s.buffer, diff)

NextStream ==
    \/ FillBuffer \/ FillRead \/ ReadTo \/ StreamSkip \/ Unread \/ ShrinkBuffer
    \/ BindBuffer \/ SetReaderIndex \/ IncreaseReaderIndex

SpecStream == InitStream /\ [][NextStream]_vars

\* SpecStream with the writer-index functions of Buffer
NextStreamW == NextStream \/ SetWriterIndex \/ IncreaseWriterIndex

SpecStreamW == InitStream /\ [][NextStreamW]_vars

\* the source's reads return: the loop of fill_buffer is not left waiting
SpecStreamLive == SpecStream /\ WF_vars(FillRead)

-----------------------------------------------------------------------------
(* Properties of SpecStream                                                   *)

\* the bound Buffer
Bound(s) == s.bufs[s.buffer]

\* the step is the return of a call of op
StreamReturns(op) == sio'.pc # "fill" /\ sio'.last.op = op

ReaderIndexInBounds ==
    \A id \in 0 .. 1 :
        0 <= sio.s.bufs[id].reader_index /\ sio.s.bufs[id].reader_index <= sio.s.bufs[id].size

UnreadChecked ==
    \A size \in 0 .. MaxStreamArg :
        StreamCall("unread", sio.s.buffer, size) =>
            IF size <= Bound(sio.s).reader_index
            THEN /\ sio'.last.err = "ok"
                 /\ sio'.s = [sio.s EXCEPT !.bufs[sio.s.buffer].reader_index = @ - size]
            ELSE sio'.last.err = "BufferOutOfBound" /\ sio'.s = sio.s

\* C14: 0 <= reader_index <= size holds for every Buffer after every sequence
\* of fill_buffer, read_to, skip, increase_reader_index, the reader_index
\* setter, unread, shrink_buffer and bind_buffer; unread(n) succeeds, moving
\* reader_index back by n, only when n <= reader_index, and otherwise returns
\* BufferOutOfBound and changes nothing.
C14_ReaderIndexInBounds == [](sio.used => ReaderIndexInBounds) /\ [][UnreadChecked]_vars

\* fill_buffer(2), skip(2), unread(1) as in test StreamSkipAndUnread, then a
\* refused unread(2)
C14_Witness ==
    /\ sio.used /\ sio.pc = "idle" /\ sio.last.op = "unread"
    /\ sio.last.err = "BufferOutOfBound"
    /\ Bound(sio.s).reader_index = 1 /\ Bound(sio.s).size = 2 /\ sio.s.bytes = <<1, 2>>

WriterIndexInBounds ==
    \A id \in 0 .. 1 : sio.s.bufs[id].writer_index <= sio.s.bufs[id].size

FillOps == {"fill_buffer", "read_to", "skip", "reader_index", "increase_reader_index"}

\* the call that returns in this step was made with writer_index = size on
\* the bound Buffer
CalledSynced ==
    IF sio.pc = "fill" THEN sio.frame.synced
    ELSE Bound(sio.s).writer_index = Bound(sio.s).size

\* a call that fills, shrinks or binds returns with writer_index = size on
\* the bound Buffer if it was called so
WriterIndexFollowsSize ==
    (CalledSynced /\ \E op \in FillOps \cup {"shrink_buffer", "bind_buffer"} : StreamReturns(op))
        => Bound(sio'.s).writer_index = Bound(sio'.s).size

\* C15: 0 <= writer_index <= size holds for every Buffer after every sequence
\* of operations, the writer_index setter and increase_writer_index included,
\* and on the Buffer bound to a stream writer_index = size is kept by every
\* fill, shrink_buffer and bind_buffer.
C15_WriterIndexInBounds ==
    [](sio.used => WriterIndexInBounds) /\ [][WriterIndexFollowsSize]_vars

\* min_fill_size <= remaining_size()
MinBuffered(s, min_fill_size) == WLeqNat(min_fill_size, ForyInputStream_remaining_size(s))

StreamReturned(op, err) ==
    sio'.pc = "idle" /\ sio'.last = [op |-> op, err |-> err]

\* in the loop a source read is asked for at least one byte and for no more
\* than data_ has room for after size_
ReadsAskedInRange ==
    sio.pc = "fill" =>
        /\ writable(sio.s) # {}
        /\ BLeq(FromNat(Bound(sio.s).size), sio.s.cap)
        /\ ~MinBuffered(sio.s, sio.frame.min)

\* fill_buffer(min_fill_size) up to its loop
FillBufferCalled ==
    \A min_fill_size \in {FromNat(n) : n \in 0 .. MaxStreamArg} \cup {Bits(32)} :
        (/\ sio.pc = "idle"
         /\ "fill_buffer" \in {sio'.last.op, sio'.frame.op}
         /\ StreamCall("fill_buffer", sio.s.buffer, min_fill_size)) =>
            /\ sio'.s.bufs = sio.s.bufs /\ sio'.s.bytes = sio.s.bytes /\ sio'.s.src = sio.s.src
            /\ IF min_fill_size = {} \/ MinBuffered(sio.s, min_fill_size)
               THEN StreamReturned("fill_buffer", "ok") /\ sio'.s = sio.s
               ELSE IF ExceedsU32(BAdd(FromNat(Bound(sio.s).reader_index), min_fill_size, 64))
               THEN StreamReturned("fill_buffer", "OutOfBound") /\ sio'.s = sio.s
               ELSE IF ~sio.s.rdbuf THEN StreamReturned("fill_buffer", "IoError")
               ELSE sio'.pc = "fill"

\* one source read of the loop, which hands over the next `got` bytes
FillBufferRead ==
    sio.pc = "fill" =>
        LET got == Len(sio.s.src) - Len(sio'.s.src)
        IN  /\ got >= 0 /\ ~WLeqNat(writable(sio.s), got - 1)
            /\ sio'.s.bytes = sio.s.bytes \o SubSeq(sio.s.src, 1, got)
            /\ sio'.s.src = SubSeq(sio.s.src, got + 1, Len(sio.s.src))
            /\ Bound(sio'.s).size = Bound(sio.s).size + got
            /\ sio.frame.op = "fill_buffer" =>
                   /\ Bound(sio'.s).reader_index = Bound(sio.s).reader_index
                   /\ IF got = 0 THEN StreamReturned("fill_buffer", "BufferOutOfBound")
                      ELSE IF MinBuffered(sio'.s, sio.frame.min)
                      THEN StreamReturned("fill_buffer", "ok")
                      ELSE sio'.pc = "fill"

\* C16: with a source whose reads return, fill_buffer(min) terminates.  It
\* returns ok only with min <= unread bytes, BufferOutOfBound exactly when a
\* source read hands over no byte before that, OutOfBound when reader_index +
\* min exceeds UINT32_MAX (and IoError without a stream buffer).  It never
\* changes reader_index or a buffered byte, appends what the source hands over
\* in arrival order, and asks each source read for 1 .. free space bytes.
C16_FillBufferTerminates ==
    /\ [](sio.used => ReadsAskedInRange)
    /\ [][FillBufferCalled /\ FillBufferRead]_vars
    /\ (sio.pc = "fill" ~> sio.pc # "fill")

\* fill_buffer(2) has returned ok with two bytes buffered behind a read one
C16_Witness ==
    /\ sio.used /\ sio.pc = "idle" /\ sio.last = [op |-> "fill_buffer", err |-> "ok"]
    /\ sio.s.bytes = <<1, 2>> /\ sio.s.src = <<>> /\ Bound(sio.s).size = 2
    /\ Bound(sio.s).reader_index = 0 /\ Bound(sio.s).writer_index = 0

\* exactly the Buffer buffer_ points to is attached to the reader
OneBoundBuffer ==
    \A id \in 0 .. 1 : sio.s.bufs[id].stream_reader <=> id = sio.s.buffer

\* the constructor binds owned_buffer_ with no Buffer bound before
FirstBindZeroes ==
    (sio.pc = "idle" /\ sio.last.op = "none") =>
        sio.s.buffer = 0 /\ sio.s.bufs[0] = [NewBuffer EXCEPT !.stream_reader = TRUE]

\* bind_buffer(buffer), `left` being what it leaves in the Buffer bound before
BindBufferMoves(buffer, left) ==
    LET target == IF buffer = nullptr THEN 0 ELSE buffer
    IN  (sio'.last.op = "bind_buffer" /\ StreamCall("bind_buffer", sio.s.buffer, buffer)) =>
            IF target = sio.s.buffer THEN sio'.s = sio.s
            ELSE sio'.s = [sio.s EXCEPT !.buffer = target, !.data[target] = "data_",
                                        !.bufs[target] = [sio.s.bufs[sio.s.buffer]
                                                              EXCEPT !.stream_reader = TRUE],
                                        !.bufs[sio.s.buffer] = left]

\* C17: at most one Buffer is bound; bind_buffer(target) with another Buffer
\* bound copies size, reader_index and writer_index to target and leaves the
\* Buffer bound before detached with all three zero; the first binding zeroes
\* its target; binding the bound Buffer again changes nothing.
C17_BindBufferMovesIndices ==
    /\ [](sio.used => OneBoundBuffer /\ FirstBindZeroes)
    /\ [][\A buffer \in {nullptr, 0, 1} : BindBufferMoves(buffer, NewBuffer)]_vars


-----------------------------------------------------------------------------
(* write_any_type_info / read_any_type_info (context.cc).  A registered       *)
(* TypeInfo is named by its number t in RegisteredTypes; its type_def is      *)
(* type_def(t).  read_any_type_info returns [ctx, val, err], where val is     *)
(* [registered, parsed]: the number of the registered TypeInfo the resolver   *)
(* returned (0 when none), or the TypeInfo that read_type_meta returned.      *)

\* enum class TypeId, the categories that write_any_type_info tells apart
TypeId ==
    [INT32 |-> 4, ENUM |-> 25, NAMED_ENUM |-> 26, STRUCT |-> 27, COMPATIBLE_STRUCT |-> 28,
     NAMED_STRUCT |-> 29, NAMED_COMPATIBLE_STRUCT |-> 30, EXT |-> 31, NAMED_EXT |-> 32,
     TYPED_UNION |-> 34, NAMED_UNION |-> 35]

UserTypeIds == {TypeId.ENUM, TypeId.STRUCT, TypeId.EXT, TypeId.TYPED_UNION}
CompatibleTypeIds == {TypeId.COMPATIBLE_STRUCT, TypeId.NAMED_COMPATIBLE_STRUCT}
NamedTypeIds == {TypeId.NAMED_ENUM, TypeId.NAMED_EXT, TypeId.NAMED_STRUCT, TypeId.NAMED_UNION}

\* CachedMetaString of a string of the lower-special alphabet: the encoding,
\* the encoded bytes and the hash, whose low byte holds the encoding
CachedMetaString(str) ==
    [encoding |-> 1,
     bytes |-> IF str = <<>> THEN <<>> ELSE encode_lower_special(str),
     hash |-> BOr(Shl(FromNat(Len(str) + 256), 8, 64), FromNat(1))]

\* the TypeInfos registered with the TypeResolver of both sides
RegisteredTypes ==
    LET info(type_id, user_type_id, namespace, type_name) ==
            [type_id |-> type_id, user_type_id |-> user_type_id,
             namespace |-> namespace, type_name |-> type_name,
             encoded_namespace |-> CachedMetaString(namespace),
             encoded_type_name |-> CachedMetaString(type_name)]
    IN  <<info(TypeId.COMPATIBLE_STRUCT, 1, <<>>, <<>>),
          info(TypeId.NAMED_COMPATIBLE_STRUCT, 0, <<97>>, <<98>>),
          info(TypeId.STRUCT, 5, <<>>, <<>>),
          info(TypeId.ENUM, 300, <<>>, <<>>),
          info(TypeId.EXT, 5, <<>>, <<>>),
          info(TypeId.TYPED_UNION, 0, <<>>, <<>>),
          info(TypeId.NAMED_STRUCT, 0, <<97>>, [i \in 1 .. 27 |-> 122]),
          info(TypeId.NAMED_ENUM, 0, <<>>, <<97>>),
          info(TypeId.NAMED_EXT, 0, <<97>>, <<97>>),
          info(TypeId.NAMED_UNION, 0, <<>>, [i \in 1 .. 25 |-> 122]),
          info(TypeId.INT32, 0, <<>>, <<>>)>>

k_small_string_threshold == 16

\* Buffer::write_int64(value)
write_int64(b, value, fill) ==
    LET g == grow(b, 8, fill)
    IN  increase_writer_index([g EXCEPT !.mem = StoreLE(g.mem, g.writer_index, value, 8)], 8)

write_encoded_meta_string_mut(b, encoded, fill) ==
    \* a bug: the encoding byte is written for the empty string too
    IF Len(encoded.bytes) > k_small_string_threshold
    THEN write_bytes(write_int64(write_var_uint32(b, Shl(FromNat(Len(encoded.bytes)), 1, 32),
                                                  fill),
                                 encoded.hash, fill),
                     encoded.bytes, fill)
    ELSE write_bytes(write_uint8(write_var_uint32(b, Shl(FromNat(Len(encoded.bytes)), 1, 32),
                                                  fill),
                                 FromNat(encoded.encoding), fill),
                     encoded.bytes, fill)

\* write_encoded_meta_string(buffer, encoded)
write_encoded_meta_string(b, encoded, fill) ==
    IF Len(encoded.bytes) > k_small_string_threshold
    THEN write_bytes(write_int64(write_var_uint32(b, Shl(FromNat(Len(encoded.bytes)), 1, 32),
                                                  fill),
                                 encoded.hash, fill),
                     encoded.bytes, fill)
    ELSE IF Len(encoded.bytes) > 0
    THEN write_bytes(write_uint8(write_var_uint32(b, Shl(FromNat(Len(encoded.bytes)), 1, 32),
                                                  fill),
                                 FromNat(encoded.encoding), fill),
                     encoded.bytes, fill)
    ELSE write_var_uint32(b, Shl(FromNat(Len(encoded.bytes)), 1, 32), fill)

\* write_type_meta(type_info); break
WroteTypeMeta(r) == [ctx |-> r.ctx, b |-> r.b, err |-> "ok"]

\* write_any_type_info, once buffer_.write_uint8(type_id) has returned b
write_any_type_info_id(ctx, b, type_info, compatible, fill) ==
    CASE RegisteredTypes[type_info].type_id \in UserTypeIds ->
            [ctx |-> ctx,
             b |-> write_var_uint32(b, FromNat(RegisteredTypes[type_info].user_type_id), fill),
             err |-> "ok"]
      [] RegisteredTypes[type_info].type_id \in CompatibleTypeIds ->
            WroteTypeMeta(write_type_meta(ctx, b, type_info, fill))
      [] RegisteredTypes[type_info].type_id \in NamedTypeIds ->
            IF compatible
            THEN WroteTypeMeta(write_type_meta(ctx, b, type_info, fill))
            ELSE [ctx |-> ctx,
                  b |-> write_encoded_meta_string(
                            write_encoded_meta_string(
                                b, RegisteredTypes[type_info].encoded_namespace, fill),
                            RegisteredTypes[type_info].encoded_type_name, fill),
                  err |-> "ok"]
      [] OTHER -> [ctx |-> ctx, b |-> b, err |-> "ok"]

\* WriteContext::write_any_type_info(const TypeInfo *type_info)
write_any_type_info(ctx, b, type_info, compatible, fill) ==
    IF type_info = 0 THEN [ctx |-> ctx, b |-> b, err |-> "Invalid"]
    ELSE write_any_type_info_id(
             ctx, write_uint8(b, Trunc(FromNat(RegisteredTypes[type_info].type_id), 8), fill),
             type_info, compatible, fill)

\* what the TypeResolver returns for the registered TypeInfos `found`
Resolved(found) ==
    IF found = {} THEN [val |-> 0, err |-> "TypeError"]
    ELSE [val |-> CHOOSE t \in found : TRUE, err |-> "ok"]

\* TypeResolver::get_user_type_info_by_id(type_id, user_type_id)
get_user_type_info_by_id(type_id, user_type_id) ==
    Resolved({t \in DOMAIN RegisteredTypes :
                 /\ RegisteredTypes[t].type_id = type_id
                 /\ FromNat(RegisteredTypes[t].user_type_id) = user_type_id})

\* TypeResolver::get_type_info_by_name(namespace, type_name)
get_type_info_by_name(namespace, type_name) ==
    Resolved({t \in DOMAIN RegisteredTypes :
                 /\ RegisteredTypes[t].type_id
                        \in NamedTypeIds \cup {TypeId.NAMED_COMPATIBLE_STRUCT}
                 /\ RegisteredTypes[t].namespace = namespace
                 /\ RegisteredTypes[t].type_name = type_name})

\* TypeResolver::get_type_info_by_id(type_id)
get_type_info_by_id(type_id) ==
    Resolved({t \in DOMAIN RegisteredTypes : RegisteredTypes[t].type_id = type_id})

AnyFailed(ctx, err) ==
    [ctx |-> ctx, val |-> [registered |-> 0, parsed |-> NoTypeInfo], err |-> err]

\* FORY_TRY(type_info, type_resolver_->get_...); return type_info
read_any_type_info_resolved(ctx, found) ==
    IF found.err # "ok" THEN AnyFailed(ctx, found.err)
    ELSE [ctx |-> ctx, val |-> [registered |-> found.val, parsed |-> NoTypeInfo],
          err |-> "ok"]

\* return read_type_meta()
read_any_type_info_meta(r) ==
    [ctx |-> r.ctx, val |-> [registered |-> 0, parsed |-> r.val], err |-> r.err]

\* read_any_type_info, once buffer_->read_var_uint32 has returned user_type_id
read_any_type_info_user(ctx, type_id, user_type_id) ==
    IF user_type_id.err # "ok"
    THEN AnyFailed([ctx EXCEPT !.buffer = user_type_id.b], user_type_id.err)
    ELSE read_any_type_info_resolved([ctx EXCEPT !.buffer = user_type_id.b],
                                     get_user_type_info_by_id(type_id, user_type_id.val))

\* read_any_type_info, once the second read_string has returned type_name
read_any_type_info_type_name(ctx, namespace_str, type_name) ==
    IF type_name.err # "ok"
    THEN AnyFailed([ctx EXCEPT !.buffer = type_name.b,
                               !.meta_string_table = type_name.entries], type_name.err)
    ELSE read_any_type_info_resolved(
             [ctx EXCEPT !.buffer = type_name.b, !.meta_string_table = type_name.entries],
             get_type_info_by_name(namespace_str, type_name.val))

\* read_any_type_info, once the first read_string has returned namespace_str
read_any_type_info_namespace(ctx, namespace_str, env) ==
    IF namespace_str.err # "ok"
    THEN AnyFailed([ctx EXCEPT !.buffer = namespace_str.b,
                               !.meta_string_table = namespace_str.entries],
                   namespace_str.err)
    ELSE read_any_type_info_type_name(
             ctx, namespace_str.val,
             read_string(namespace_str.entries, namespace_str.b, env))

\* read_any_type_info, once buffer_->read_uint8 has returned type_id
read_any_type_info_id(ctx, type_id, compatible, env) ==
    IF type_id.err # "ok" THEN AnyFailed([ctx EXCEPT !.buffer = type_id.b], type_id.err)
    ELSE CASE ToNat(type_id.val) \in UserTypeIds ->
                 read_any_type_info_user(ctx, ToNat(type_id.val),
                                         read_var_uint32(type_id.b, env))
           [] ToNat(type_id.val) \in CompatibleTypeIds ->
                 read_any_type_info_meta(
                     read_type_meta([ctx EXCEPT !.buffer = type_id.b], env))
           [] ToNat(type_id.val) \in NamedTypeIds ->
                 IF compatible
                 THEN read_any_type_info_meta(
                          read_type_meta([ctx EXCEPT !.buffer = type_id.b], env))
                 ELSE read_any_type_info_namespace(
                          ctx, read_string(ctx.meta_string_table, type_id.b, env), env)
           [] OTHER ->
                 read_any_type_info_resolved([ctx EXCEPT !.buffer = type_id.b],
                                             get_type_info_by_id(ToNat(type_id.val)))

\* ReadContext::read_any_type_info
read_any_type_info(ctx, compatible, env) ==
    read_any_type_info_id(ctx, read_fixed(ctx.buffer, 1, env), compatible, env)


-----------------------------------------------------------------------------
(* Specification of the type info round trip.  A WriteContext and a           *)
(* ReadContext share the registered types and the compatible flag.  The       *)
(* writer writes the type infos of a message; the reader is then attached to  *)
(* the bytes written and reads them back one by one; both contexts are reset  *)
(* before the next message.  wctx holds the WriteContext, the flag and the    *)
(* bytes of its buffer_ below writer_index; wobs holds, per type info         *)
(* written, its number and the writer_index before and after; rctx holds the  *)
(* ReadContext; robs holds the last call of the reader and what it returned.  *)

MaxAnyItems == 3  \* type infos in a message
MaxAnyFresh == 2  \* of which this many are chosen freely; later ones repeat them

AnyNone == [registered |-> 0, parsed |-> NoTypeInfo]

InitAny ==
    /\ \E compatible \in BOOLEAN :
          wctx = [used |-> TRUE, ctx |-> NewWriteContext, compatible |-> compatible,
                  bytes |-> <<>>]
    /\ wobs = [used |-> TRUE, items |-> <<>>]
    /\ rctx = [used |-> TRUE, ctx |-> NewReadContext(MemBuffer(<<>>))]
    /\ robs = [used |-> TRUE, op |-> "init", messages |-> 1, read |-> 0,
               val |-> AnyNone, err |-> "ok"]
    /\ codec = Unused /\ sio = Unused

\* buffer_ of the writer
WriterBuffer == [MemBuffer(wctx.bytes) EXCEPT !.writer_index = Len(wctx.bytes)]

\* the state after write_any_type_info(type_info) returned r
AfterWriteAny(type_info, r) ==
    /\ wctx' = [wctx EXCEPT !.ctx = r.ctx, !.bytes = SubSeq(r.b.mem, 1, r.b.writer_index)]
    /\ wobs' = [wobs EXCEPT !.items = Append(@, [type |-> type_info, err |-> r.err,
                                                 from |-> Len(wctx.bytes),
                                                 to |-> r.b.writer_index])]

AnyChoices ==
    IF Len(wobs.items) < MaxAnyFresh THEN DOMAIN RegisteredTypes
    ELSE {wobs.items[i].type : i \in 1 .. Len(wobs.items)}

WriteAnyTypeInfo ==
    /\ wctx.used /\ rctx.used /\ robs.read = 0 /\ Len(wobs.items) < MaxAnyItems
    /\ \E type_info \in AnyChoices, fill \in FillBytes :
          AfterWriteAny(type_info,
                        write_any_type_info(wctx.ctx, WriterBuffer, type_info,
                                            wctx.compatible, fill))
    /\ UNCHANGED <<codec, rctx, robs, sio>>

\* the ReadContext of the next call: before the first one, the bytes written
\* are attached to it
ReaderContext ==
    IF robs.read = 0 THEN [rctx.ctx EXCEPT !.buffer = MemBuffer(wctx.bytes)] ELSE rctx.ctx

\* the state after read_any_type_info returned r
AfterReadAny(r) ==
    /\ rctx' = [used |-> TRUE, ctx |-> r.ctx]
    /\ robs' = [robs EXCEPT !.op = "read_any_type_info", !.read = @ + 1,
                            !.val = r.val, !.err = r.err]

ReadAnyTypeInfo ==
    /\ wctx.used /\ rctx.used /\ robs.read < Len(wobs.items) /\ robs.err = "ok"
    /\ AfterReadAny(read_any_type_info(ReaderContext, wctx.compatible, NoEnv))
    /\ UNCHANGED <<codec, wctx, wobs, sio>>

\* WriteContext::reset and ReadContext::reset, before the next message
ResetAny ==
    /\ wctx.used /\ rctx.used /\ wobs.items # <<>> /\ robs.messages < MaxMessages
    /\ wctx' = [wctx EXCEPT !.ctx = WriteContext_reset(@), !.bytes = <<>>]
    /\ wobs' = [wobs EXCEPT !.items = <<>>]
    /\ rctx' = [used |-> TRUE,
                ctx |-> [ReadContext_reset(rctx.ctx) EXCEPT !.buffer = MemBuffer(<<>>)]]
    /\ robs' = [robs EXCEPT !.op = "reset", !.messages = @ + 1, !.read = 0,
                            !.val = AnyNone, !.err = "ok"]
    /\ UNCHANGED <<codec, sio>>

NextAny == WriteAnyTypeInfo \/ ReadAnyTypeInfo \/ ResetAny

SpecAny == InitAny /\ [][NextAny]_vars


-----------------------------------------------------------------------------
(* Properties of the type info round trip *)

\* whether write_any_type_info writes the type's TypeMeta
UsesTypeMeta(t) ==
    \/ RegisteredTypes[t].type_id \in CompatibleTypeIds
    \/ RegisteredTypes[t].type_id \in NamedTypeIds /\ wctx.compatible

\* the registered type that a returned type info belongs to, 0 when none
TypeOf(val) ==
    IF val.registered # 0 THEN val.registered
    ELSE IF ~val.parsed.null
            /\ \E t \in DOMAIN RegisteredTypes : meta_header(t) = val.parsed.header
    THEN CHOOSE t \in DOMAIN RegisteredTypes : meta_header(t) = val.parsed.header
    ELSE 0

\* the wire layout of a meta string
MetaStringBytes(encoded) ==
    VarUint32Bytes(FromNat(2 * Len(encoded.bytes)))
    \o (IF Len(encoded.bytes) > 16 THEN BytesLE(encoded.hash, 8)
        ELSE IF Len(encoded.bytes) > 0 THEN <<encoded.encoding>> ELSE <<>>)
    \o encoded.bytes

\* the streaming TypeMeta of the i-th type info of the message
TypeMetaBytes(i) ==
    LET t == wobs.items[i].type
        first(u) == CHOOSE j \in 1 .. i :
                        wobs.items[j].type = u /\ \A k \in 1 .. (j - 1) : wobs.items[k].type # u
        index == Cardinality({wobs.items[j].type : j \in
                                 {k \in 1 .. (first(t) - 1) : UsesTypeMeta(wobs.items[k].type)}})
    IN  IF first(t) = i THEN VarUint32Bytes(FromNat(2 * index)) \o type_def(t)
        ELSE VarUint32Bytes(FromNat(2 * index + 1))

\* what follows the type_id byte of the i-th type info of the message
FollowUp(i) ==
    LET type_info == RegisteredTypes[wobs.items[i].type]
    IN  IF type_info.type_id \in UserTypeIds
        THEN VarUint32Bytes(FromNat(type_info.user_type_id))
        ELSE IF UsesTypeMeta(wobs.items[i].type) THEN TypeMetaBytes(i)
        ELSE IF type_info.type_id \in NamedTypeIds
        THEN MetaStringBytes(type_info.encoded_namespace)
             \o MetaStringBytes(type_info.encoded_type_name)
        ELSE <<>>

\* C19: for every registered type category and either setting of compatible
\* mode, write_any_type_info succeeds and appends the 1-byte type_id followed
\* by the varuint user_type_id (ENUM, STRUCT, EXT, TYPED_UNION), by the
\* namespace and type_name meta strings (NAMED_* in non-compatible mode), by
\* the streaming TypeMeta (COMPATIBLE_STRUCT, NAMED_COMPATIBLE_STRUCT, and
\* NAMED_* in compatible mode) or by nothing (any other type id); and the k-th
\* read_any_type_info on the bytes written succeeds, leaves reader_index at
\* the end of the bytes of the k-th type info, so that the last one leaves
\* nothing unread, and returns the type info of the k-th type written.
C19_AnyTypeInfoRoundTrip ==
    wobs.used =>
        /\ \A i \in 1 .. Len(wobs.items) :
              /\ wobs.items[i].err = "ok"
              /\ SubSeq(wctx.bytes, wobs.items[i].from + 1, wobs.items[i].to)
                    = <<RegisteredTypes[wobs.items[i].type].type_id>> \o FollowUp(i)
        /\ robs.op = "read_any_type_info" =>
              /\ robs.err = "ok"
              /\ rctx.ctx.buffer.reader_index = wobs.items[robs.read].to
              /\ robs.read = Len(wobs.items) =>
                    rctx.ctx.buffer.reader_index = rctx.ctx.buffer.size
              /\ TypeOf(robs.val) = wobs.items[robs.read].type

\* in the second message, non-compatible mode: a COMPATIBLE_STRUCT, a
\* NAMED_STRUCT whose type name takes 17 bytes, and the COMPATIBLE_STRUCT
\* again, written as a back-reference; all three have been read back
C19_Witness ==
    /\ wobs.used
    /\ ~wctx.compatible /\ robs.messages = 2
    /\ robs.op = "read_any_type_info" /\ robs.read = 3 /\ robs.err = "ok"
    /\ [i \in 1 .. 3 |-> RegisteredTypes[wobs.items[i].type].type_id]
          = <<TypeId.COMPATIBLE_STRUCT, TypeId.NAMED_STRUCT, TypeId.COMPATIBLE_STRUCT>>
    /\ wobs.items[3].to - wobs.items[3].from = 2
    /\ Len(rctx.ctx.meta_string_table) = 2
    /\ robs.val.parsed = ParsedTypeInfo(meta_header(1))

\* in compatible mode: a NAMED_ENUM, a NAMED_UNION and the NAMED_UNION again,
\* written as the back-reference to index 1; all three have been read back
C19_WitnessCompatible ==
    /\ wobs.used
    /\ wctx.compatible
    /\ robs.op = "read_any_type_info" /\ robs.read = 3 /\ robs.err = "ok"
    /\ [i \in 1 .. 3 |-> RegisteredTypes[wobs.items[i].type].type_id]
          = <<TypeId.NAMED_ENUM, TypeId.NAMED_UNION, TypeId.NAMED_UNION>>
    /\ SubSeq(wctx.bytes, wobs.items[3].from + 1, wobs.items[3].to) = <<TypeId.NAMED_UNION, 3>>
    /\ rctx.ctx.meta_string_table = <<>>


-----------------------------------------------------------------------------
(* Reference flags (serializer.h).  read_null_only_flag returns               *)
(* [ctx, val, err]: the ReadContext, the bool returned and ctx.error() after  *)
(* the call.                                                                  *)

NULL_FLAG == -3
REF_FLAG == -2
NOT_NULL_VALUE_FLAG == -1
REF_VALUE_FLAG == 0

\* enum class RefMode
RefMode == {"None", "NullOnly", "Tracking"}

\* static_cast<int8_t>(data_[reader_index_])
int8_t(value) == IF 7 \in value THEN ToNat(Trunc(value, 8)) - 256 ELSE ToNat(Trunc(value, 8))

\* read_null_only_flag on REF_FLAG, once ctx.read_var_uint32 has returned ref_id
read_null_only_flag_ref(ctx, ref_id) ==
    IF ref_id.err # "ok"
    THEN [ctx |-> [ctx EXCEPT !.buffer = ref_id.b], val |-> FALSE, err |-> ref_id.err]
    ELSE [ctx |-> [ctx EXCEPT !.buffer = ref_id.b], val |-> FALSE, err |-> "InvalidRef"]

read_null_only_flag_read_mut(ctx, flag, env) ==
    \* a bug: only NOT_NULL_VALUE_FLAG means "continue reading"
    IF flag.err # "ok"
    THEN [ctx |-> [ctx EXCEPT !.buffer = flag.b], val |-> FALSE, err |-> flag.err]
    ELSE IF int8_t(flag.val) = NULL_FLAG
    THEN [ctx |-> [ctx EXCEPT !.buffer = flag.b], val |-> FALSE, err |-> "ok"]
    ELSE IF int8_t(flag.val) = NOT_NULL_VALUE_FLAG
    THEN [ctx |-> [ctx EXCEPT !.buffer = flag.b], val |-> TRUE, err |-> "ok"]
    ELSE IF int8_t(flag.val) = REF_FLAG
    THEN read_null_only_flag_ref(ctx, read_var_uint32(flag.b, env))
    ELSE [ctx |-> [ctx EXCEPT !.buffer = flag.b], val |-> FALSE, err |-> "InvalidData"]

\* read_null_only_flag, once ctx.read_int8 has returned flag
read_null_only_flag_read(ctx, flag, env) ==
    IF flag.err # "ok"
    THEN [ctx |-> [ctx EXCEPT !.buffer = flag.b], val |-> FALSE, err |-> flag.err]
    ELSE IF int8_t(flag.val) = NULL_FLAG
    THEN [ctx |-> [ctx EXCEPT !.buffer = flag.b], val |-> FALSE, err |-> "ok"]
    ELSE IF int8_t(flag.val) = NOT_NULL_VALUE_FLAG \/ int8_t(flag.val) = REF_VALUE_FLAG
    THEN [ctx |-> [ctx EXCEPT !.buffer = flag.b], val |-> TRUE, err |-> "ok"]
    ELSE IF int8_t(flag.val) = REF_FLAG
    THEN read_null_only_flag_ref(ctx, read_var_uint32(flag.b, env))
    ELSE [ctx |-> [ctx EXCEPT !.buffer = flag.b], val |-> FALSE, err |-> "InvalidData"]

\* read_null_only_flag(ctx, ref_mode)
read_null_only_flag(ctx, ref_mode, env) ==
    IF ref_mode = "None" THEN [ctx |-> ctx, val |-> TRUE, err |-> "ok"]
    ELSE read_null_only_flag_read(ctx, read_fixed(ctx.buffer, 1, env), env)

-----------------------------------------------------------------------------
(* Specification of the reference flags.  A ReadContext is attached to a      *)
(* message of up to MaxFlagBytes bytes; each step reads the flag of one value *)
(* with the ref mode of that value.  No call is made once the context holds   *)
(* an error, until it is reset for the next message.  robs holds the last     *)
(* call: its ref mode, reader_index before it, the byte found there (-1 when  *)
(* none), what it returned and the error it left.                             *)

MaxFlagBytes == 3

\* the four flags, two bytes that are no flag, and a varuint continuation byte
FlagBytes == {253, 254, 255, 0, 1, 127, 128}
FlagMessages == UNION {[1 .. n -> FlagBytes] : n \in 0 .. MaxFlagBytes}

InitFlags ==
    /\ \E message \in FlagMessages :
          rctx = [used |-> TRUE, ctx |-> NewReadContext(MemBuffer(message))]
    /\ robs = [used |-> TRUE, op |-> "init", messages |-> 1, ref_mode |-> "None",
               from |-> 0, byte |-> -1, val |-> FALSE, err |-> "ok"]
    /\ codec = Unused /\ wctx = Unused /\ wobs = Unused /\ sio = Unused

\* the state after read_null_only_flag(ctx, ref_mode) returned r
AfterReadFlag(ref_mode, r) ==
    /\ rctx' = [used |-> TRUE, ctx |-> r.ctx]
    /\ robs' = [robs EXCEPT !.op = "read_null_only_flag", !.ref_mode = ref_mode,
                            !.from = rctx.ctx.buffer.reader_index,
                            !.byte = IF rctx.ctx.buffer.reader_index < rctx.ctx.buffer.size
                                     THEN rctx.ctx.buffer.mem[rctx.ctx.buffer.reader_index + 1]
                                     ELSE -1,
                            !.val = r.val, !.err = r.err]

ReadNullOnlyFlag ==
    /\ rctx.used /\ robs.err = "ok"
    /\ \E ref_mode \in RefMode :
          AfterReadFlag(ref_mode, read_null_only_flag(rctx.ctx, ref_mode, NoEnv))
    /\ UNCHANGED <<codec, wctx, wobs, sio>>

\* ReadContext::reset, then the next message is attached
ResetFlags ==
    /\ rctx.used /\ robs.messages < MaxMessages /\ robs.op = "read_null_only_flag"
    /\ \E message \in FlagMessages :
          rctx' = [used |-> TRUE,
                   ctx |-> [ReadContext_reset(rctx.ctx) EXCEPT !.buffer = MemBuffer(message)]]
    /\ robs' = [robs EXCEPT !.op = "reset", !.messages = @ + 1, !.ref_mode = "None",
                            !.from = 0, !.byte = -1, !.val = FALSE, !.err = "ok"]
    /\ UNCHANGED <<codec, wctx, wobs, sio>>

NextFlags == ReadNullOnlyFlag \/ ResetFlags

SpecFlags == InitFlags /\ [][NextFlags]_vars

-----------------------------------------------------------------------------
(* Properties of the reference flags *)

\* how far the last call moved reader_index
FlagConsumed == rctx.ctx.buffer.reader_index - robs.from

\* the last call was made with a ref mode other than None and found `flag`
FlagRead(flag) ==
    /\ robs.op = "read_null_only_flag" /\ robs.ref_mode # "None"
    /\ robs.byte # -1 /\ int8_t(FromNat(robs.byte)) = flag

\* the call with ref mode None, and the call that finds no byte to read
FlagNoneAndUnderrun ==
    /\ robs.op = "read_null_only_flag" /\ robs.ref_mode = "None" =>
          FlagConsumed = 0 /\ robs.val /\ robs.err = "ok"
    /\ robs.op = "read_null_only_flag" /\ robs.ref_mode # "None" /\ robs.byte = -1 =>
          FlagConsumed = 0 /\ ~robs.val /\ robs.err = "BufferOutOfBound"

\* C20 as stated: with ref mode NullOnly one flag byte is consumed; Null returns
\* false and NotNull returns true, both without error; Ref, RefValue and every
\* other byte set an error and return false.  With ref mode None no byte is
\* consumed and true is returned.
C20_OnlyNullAndNotNull ==
    /\ robs.op = "read_null_only_flag" /\ robs.ref_mode = "None" =>
          FlagConsumed = 0 /\ robs.val /\ robs.err = "ok"
    /\ robs.op = "read_null_only_flag" /\ robs.ref_mode = "NullOnly" /\ robs.byte # -1 =>
          /\ FlagConsumed = 1
          /\ FlagRead(NULL_FLAG) => ~robs.val /\ robs.err = "ok"
          /\ FlagRead(NOT_NULL_VALUE_FLAG) => robs.val /\ robs.err = "ok"
          /\ ~FlagRead(NULL_FLAG) /\ ~FlagRead(NOT_NULL_VALUE_FLAG) =>
                ~robs.val /\ robs.err # "ok"

\* C20, amended: with a ref mode other than None, Null returns false and
\* NotNull and RefValue return true, all three without error and having
\* consumed the flag byte alone; Ref consumes the flag byte and the varuint ref
\* id after it, returns false and sets an InvalidRef error, or the error of
\* reading the ref id; every other byte is consumed alone, returns false and
\* sets an InvalidData error; with no byte to read, nothing is consumed and
\* the error is that of the read.  With ref mode None no byte is consumed and
\* true is returned.
C20_NullOnlyFlag ==
    /\ FlagNoneAndUnderrun
    /\ FlagRead(NULL_FLAG) => FlagConsumed = 1 /\ ~robs.val /\ robs.err = "ok"
    /\ FlagRead(NOT_NULL_VALUE_FLAG) \/ FlagRead(REF_VALUE_FLAG) =>
          FlagConsumed = 1 /\ robs.val /\ robs.err = "ok"
    /\ FlagRead(REF_FLAG) =>
          /\ ~robs.val /\ robs.err \in {"InvalidRef", "BufferOutOfBound"}
          /\ robs.err = "InvalidRef" =>
                /\ FlagConsumed >= 2
                /\ rctx.ctx.buffer.mem[rctx.ctx.buffer.reader_index] < 128
          /\ robs.err = "BufferOutOfBound" =>
                \A i \in (robs.from + 2) .. rctx.ctx.buffer.size :
                    rctx.ctx.buffer.mem[i] >= 128
    /\ \A flag \in -128 .. 127 :
          FlagRead(flag)
          /\ flag \notin {NULL_FLAG, NOT_NULL_VALUE_FLAG, REF_VALUE_FLAG, REF_FLAG} =>
             FlagConsumed = 1 /\ ~robs.val /\ robs.err = "InvalidData"

\* RefValue has been read as the second flag of the second message of a
\* ReadContext, for a value whose ref mode is NullOnly
C20_Witness ==
    /\ FlagRead(REF_VALUE_FLAG) /\ robs.ref_mode = "NullOnly"
    /\ robs.messages = 2 /\ robs.from = 1 /\ robs.val /\ robs.err = "ok"


-----------------------------------------------------------------------------
(* read_enum_type_info (context.cc) and the errors of the type info reads.    *)

\* read_enum_type_info, once buffer_->read_uint8(error) has returned type_id:
\* error is not looked at before type_id is compared
read_enum_type_info_id(ctx, type_id, base_type_id, compatible, env) ==
    IF ToNat(type_id.val) = TypeId.ENUM
    THEN read_any_type_info_user(ctx, ToNat(type_id.val), read_var_uint32(type_id.b, env))
    ELSE IF ToNat(type_id.val) = TypeId.NAMED_ENUM
    THEN IF compatible
         THEN read_any_type_info_meta(read_type_meta([ctx EXCEPT !.buffer = type_id.b], env))
         ELSE read_any_type_info_namespace(
                  ctx, read_string(ctx.meta_string_table, type_id.b, env), env)
    ELSE AnyFailed([ctx EXCEPT !.buffer = type_id.b], "TypeMismatch")

\* ReadContext::read_enum_type_info(base_type_id)
read_enum_type_info(ctx, base_type_id, compatible, env) ==
    read_enum_type_info_id(ctx, read_fixed(ctx.buffer, 1, env), base_type_id, compatible, env)

-----------------------------------------------------------------------------
(* Specification of the type info reads on cut-off input.  A message is what  *)
(* a WriteContext wrote for up to MaxInfoItems items, each the type info of a *)
(* registered type written for one of the three read operations, cut off      *)
(* anywhere in its last item.  The reader calls, item by item, the operation  *)
(* the item was written for, stops at the first error, and is reset before   *)
(* the next message.  robs holds the message's items and where each ends, the *)
(* number of calls made, and for the last call reading_type_infos and         *)
(* reader_index before it, what it returned and its error.                    *)

MaxInfoItems == 2

InfoItems ==
    {[op |-> "read_any_type_info", type |-> t] : t \in {1, 3, 9, 11}}
    \cup {[op |-> "read_enum_type_info", type |-> t] : t \in {4, 8}}
    \cup {[op |-> "read_type_meta", type |-> t] : t \in {1, 2}}

\* what the writer's context and buffer are after the item has been written
InfoWrite(item, w, compatible) ==
    IF item.op = "read_type_meta" THEN write_type_meta(w.ctx, w.b, item.type, 0)
    ELSE write_any_type_info(w.ctx, w.b, item.type, compatible, 0)

\* w, once the item has been written behind it with outcome r
InfoEnded(w, r) == [ctx |-> r.ctx, b |-> r.b, ends |-> Append(w.ends, r.b.writer_index)]
InfoAppended(w, item, compatible) == InfoEnded(w, InfoWrite(item, w, compatible))

\* the writer's context and buffer after items[1 .. k], and where each ends
RECURSIVE InfoWritten(_, _, _)
InfoWritten(items, k, compatible) ==
    IF k = 0 THEN [ctx |-> NewWriteContext, b |-> MemBuffer(<<>>), ends |-> <<>>]
    ELSE InfoAppended(InfoWritten(items, k - 1, compatible), items[k], compatible)

\* the messages of `items` cut off in the last item, given what was written
InfoCuts(items, w) ==
    {[items |-> items, ends |-> w.ends, bytes |-> SubSeq(w.b.mem, 1, n)] :
        n \in (IF Len(items) = 1 THEN 0 ELSE w.ends[Len(items) - 1]) .. w.ends[Len(items)]}

InfoMessages ==
    [compatible \in BOOLEAN |->
        UNION {InfoCuts(items, InfoWritten(items, Len(items), compatible)) :
                  items \in UNION {[1 .. n -> InfoItems] : n \in 1 .. MaxInfoItems}}]

InitInfo ==
    /\ \E compatible \in BOOLEAN : \E message \in InfoMessages[compatible] :
          /\ rctx = [used |-> TRUE, ctx |-> NewReadContext(MemBuffer(message.bytes))]
          /\ robs = [used |-> TRUE, op |-> "init", compatible |-> compatible, messages |-> 1,
                     items |-> message.items, ends |-> message.ends, read |-> 0,
                     before |-> <<>>, from |-> 0, val |-> AnyNone, err |-> "ok"]
    /\ codec = Unused /\ wctx = Unused /\ wobs = Unused /\ sio = Unused

\* the next call is to be `op`
InfoNext(op) ==
    /\ rctx.used /\ robs.err = "ok"
    /\ robs.read < Len(robs.items) /\ robs.items[robs.read + 1].op = op

\* the state after the call returned r
AfterInfo(op, r) ==
    /\ rctx' = [used |-> TRUE, ctx |-> r.ctx]
    /\ robs' = [robs EXCEPT !.op = op, !.read = @ + 1,
                            !.before = rctx.ctx.reading_type_infos,
                            !.from = rctx.ctx.buffer.reader_index,
                            !.val = r.val, !.err = r.err]
    /\ UNCHANGED <<codec, wctx, wobs, sio>>

InfoReadEnumTypeInfo ==
    /\ InfoNext("read_enum_type_info")
    /\ AfterInfo("read_enum_type_info",
                 read_enum_type_info(rctx.ctx, TypeId.ENUM, robs.compatible, NoEnv))

InfoReadAnyTypeInfo ==
    /\ InfoNext("read_any_type_info")
    /\ AfterInfo("read_any_type_info", read_any_type_info(rctx.ctx, robs.compatible, NoEnv))

InfoReadTypeMeta ==
    /\ InfoNext("read_type_meta")
    /\ AfterInfo("read_type_meta", read_any_type_info_meta(read_type_meta(rctx.ctx, NoEnv)))

\* ReadContext::reset, then the next message is attached
InfoReset ==
    /\ rctx.used /\ robs.messages < MaxMessages /\ robs.read > 0
    /\ \E message \in InfoMessages[robs.compatible] :
          /\ rctx' = [used |-> TRUE,
                      ctx |-> [ReadContext_reset(rctx.ctx) EXCEPT
                                  !.buffer = MemBuffer(message.bytes)]]
          /\ robs' = [robs EXCEPT !.op = "reset", !.messages = @ + 1,
                                  !.items = message.items, !.ends = message.ends,
                                  !.read = 0, !.before = <<>>, !.from = 0,
                                  !.val = AnyNone, !.err = "ok"]
    /\ UNCHANGED <<codec, wctx, wobs, sio>>

NextInfo == InfoReadEnumTypeInfo \/ InfoReadAnyTypeInfo \/ InfoReadTypeMeta \/ InfoReset

SpecInfo == InitInfo /\ [][NextInfo]_vars


-----------------------------------------------------------------------------
(* Properties of the type info reads on cut-off input *)

\* the last call was `op` and the item it was to read is cut off: one of its
\* buffer reads has failed
InfoCut(op) ==
    /\ robs.op = op
    /\ robs.ends[robs.read] > rctx.ctx.buffer.size

\* the last call returned the error of the failed read and added nothing to
\* reading_type_infos
FirstErrorReturned ==
    /\ robs.err = "BufferOutOfBound"
    /\ robs.val = AnyNone
    /\ rctx.ctx.reading_type_infos = robs.before

\* C21: a call of read_enum_type_info, read_any_type_info or read_type_meta
\* that hits a failing buffer read returns that error (BufferOutOfBound), not
\* a later one derived from the zero value of the failed read, and adds no
\* entry to reading_type_infos.
C21_FirstErrorReturned ==
    \A op \in {"read_enum_type_info", "read_any_type_info", "read_type_meta"} :
        InfoCut(op) => FirstErrorReturned


-----------------------------------------------------------------------------
(* Specification of the parsed-meta cache.  The messages hold complete        *)
(* definitions only: of type 1, registered locally with the same schema, of   *)
(* type 2, not registered locally, and of the types in EvolvedTypes,          *)
(* registered locally with another schema.  rctx and robs are as in SpecRead. *)

MaxCacheItems == 3

CacheTypes == LocalTypes \cup {2} \cup EvolvedTypes
CacheMessages ==
    {MessageBytes(m, 0) :
        m \in UNION {[1 .. n -> {[kind |-> "def", type |-> t, index |-> 0] : t \in CacheTypes}] :
                        n \in 1 .. MaxCacheItems}}

InitCache ==
    /\ \E message \in CacheMessages :
          rctx = [used |-> TRUE, ctx |-> NewReadContext(MemBuffer(message))]
    /\ robs = [used |-> TRUE, op |-> "init", messages |-> 1, before |-> <<>>,
               kind |-> "none", index |-> 0, val |-> NoTypeInfo, err |-> "ok",
               defs_before |-> <<>>, defs |-> <<>>]
    /\ codec = Unused /\ wctx = Unused /\ wobs = Unused /\ sio = Unused

\* read_type_meta, while the message has unread bytes and no call has failed
CacheReadTypeMeta ==
    /\ robs.err = "ok" /\ rctx.ctx.buffer.reader_index < rctx.ctx.buffer.size
    /\ ReadTypeMeta

\* reset, then the next message is attached
CacheReset ==
    /\ rctx.used /\ robs.messages < MaxMessages /\ robs.op = "read_type_meta"
    /\ \E message \in CacheMessages :
          rctx' = [used |-> TRUE,
                   ctx |-> [ReadContext_reset(rctx.ctx) EXCEPT !.buffer = MemBuffer(message)]]
    /\ robs' = [used |-> TRUE, op |-> "reset", messages |-> robs.messages + 1,
                before |-> <<>>, kind |-> "none", index |-> 0, val |-> NoTypeInfo,
                err |-> "ok", defs_before |-> <<>>, defs |-> <<>>]
    /\ UNCHANGED <<codec, wctx, wobs, sio>>

NextCache == CacheReadTypeMeta \/ CacheReset

SpecCache == InitCache /\ [][NextCache]_vars

-----------------------------------------------------------------------------
(* Properties of the parsed-meta cache *)

\* the header of the definition at the reader index
HeaderAhead ==
    LoadLE(rctx.ctx.buffer.mem, rctx.ctx.buffer.reader_index + 1, 8)

\* where the definitions of a message start, from `at` on
RECURSIVE DefinitionStarts(_, _)
DefinitionStarts(mem, at) ==
    IF at >= Len(mem) THEN {}
    ELSE {at} \cup DefinitionStarts(mem, at + 1 + 8 + meta_size(LoadLE(mem, at + 1, 8)))

\* read_type_meta is called at the start of a definition
CacheRead ==
    /\ rctx.ctx.buffer.reader_index \in DefinitionStarts(rctx.ctx.buffer.mem, 0)
    /\ CacheReadTypeMeta

\* read_type_meta is called on a definition whose header is the last one seen
\* or is in the parsed-meta cache
CacheHit ==
    /\ CacheRead
    /\ \/ rctx.ctx.has_last_meta_header /\ rctx.ctx.last_meta_header = HeaderAhead
       \/ HeaderAhead \in DOMAIN rctx.ctx.parsed_type_infos

\* the call returns the cached TypeInfo and leaves reader_index behind the
\* definition: marker, header and the bytes the header announces
CacheHitSkipsDefinition ==
    CacheHit =>
        /\ robs'.err = "ok"
        /\ robs'.val = ParsedTypeInfo(HeaderAhead)
        /\ rctx'.ctx.buffer.reader_index
              = rctx.ctx.buffer.reader_index + 1 + 8 + meta_size(HeaderAhead)

\* the call parses the definition and leaves reader_index behind it
CacheMissParsesDefinition ==
    CacheRead /\ ~CacheHit =>
        /\ robs'.err = "ok"
        /\ robs'.val = ParsedTypeInfo(HeaderAhead)
        /\ rctx'.ctx.buffer.reader_index
              = rctx.ctx.buffer.reader_index + 1 + 8 + meta_size(HeaderAhead)

\* C22: read_type_meta on an inline definition whose header is known returns
\* the cached TypeInfo and advances reader_index by the bytes the definition
\* occupies on the wire, to where parsing it on a cache miss ends, whether the
\* local type has the same schema, another schema or does not exist.
C22_CacheHitSkipsDefinition == [][CacheHitSkipsDefinition]_vars


-----------------------------------------------------------------------------
(* The bound of the parsed-meta cache: read_type_meta on a ReadContext that   *)
(* earlier messages have filled up to one entry below                        *)
(* k_max_parsed_num_type_defs.                                                *)

MaxCapItems == 3

\* the types whose definitions earlier messages carried, none registered
CachedBefore == k_max_parsed_num_type_defs - 1
FirstCachedType == 100
CachedTypes(n) == FirstCachedType .. FirstCachedType + n - 1

\* the ReadContext after messages with the definitions of CachedTypes(n), the
\* last of them of type `last`, and a reset
FilledReadContext(b, n, last) ==
    [NewReadContext(b) EXCEPT
        !.parsed_type_infos = [h \in {meta_header(t) : t \in CachedTypes(n)} |-> ParsedTypeInfo(h)],
        !.has_last_meta_header = TRUE,
        !.last_meta_header = meta_header(last),
        !.last_meta_type_info = ParsedTypeInfo(meta_header(last))]

\* definitions of two types not seen before and of one seen before
CapTypes == {1, 2, FirstCachedType}
CapMessages ==
    {MessageBytes(m, 0) :
        m \in UNION {[1 .. n -> {[kind |-> "def", type |-> t, index |-> 0] : t \in CapTypes}] :
                        n \in 1 .. MaxCapItems}}

InitCap ==
    /\ \E message \in CapMessages :
          rctx = [used |-> TRUE,
                  ctx |-> FilledReadContext(MemBuffer(message), CachedBefore,
                                            FirstCachedType + CachedBefore - 1)]
    /\ robs = [used |-> TRUE, op |-> "init", messages |-> 1, before |-> <<>>,
               kind |-> "none", index |-> 0, val |-> NoTypeInfo, err |-> "ok",
               defs_before |-> <<>>, defs |-> <<>>]
    /\ codec = Unused /\ wctx = Unused /\ wobs = Unused /\ sio = Unused

\* read_type_meta, while the message has unread bytes
CapReadTypeMeta ==
    /\ rctx.ctx.buffer.reader_index < rctx.ctx.buffer.size
    /\ ReadTypeMeta

\* reset, then the next message is attached
CapReset ==
    /\ rctx.used /\ robs.messages < MaxMessages /\ robs.op = "read_type_meta"
    /\ \E message \in CapMessages :
          rctx' = [used |-> TRUE,
                   ctx |-> [ReadContext_reset(rctx.ctx) EXCEPT !.buffer = MemBuffer(message)]]
    /\ robs' = [used |-> TRUE, op |-> "reset", messages |-> robs.messages + 1,
                before |-> <<>>, kind |-> "none", index |-> 0, val |-> NoTypeInfo,
                err |-> "ok", defs_before |-> <<>>, defs |-> <<>>]
    /\ UNCHANGED <<codec, wctx, wobs, sio>>

NextCap == CapReadTypeMeta \/ CapReset

SpecCap == InitCap /\ [][NextCap]_vars


\* a TypeInfo that the parsed-meta cache owns (cached_type_infos_)
InCache(ctx, p) ==
    p.header \in DOMAIN ctx.parsed_type_infos /\ ctx.parsed_type_infos[p.header] = p

\* a TypeInfo that the overflow list owns (owned_reading_type_infos_)
InOverflow(ctx, p) ==
    \E i \in DOMAIN ctx.owned_reading_type_infos : ctx.owned_reading_type_infos[i] = p

\* the TypeInfo pointers that the context holds or has returned since the reset
HeldTypeInfos ==
    {rctx.ctx.reading_type_infos[i] : i \in DOMAIN rctx.ctx.reading_type_infos}
    \cup {robs.defs[i] : i \in DOMAIN robs.defs}
    \cup (IF robs.val.null THEN {} ELSE {robs.val})
    \cup (IF rctx.ctx.has_last_meta_header THEN {rctx.ctx.last_meta_type_info} ELSE {})

CapState ==
    /\ Cardinality(DOMAIN rctx.ctx.parsed_type_infos) <= k_max_parsed_num_type_defs
    /\ rctx.ctx.has_last_meta_header =>
          /\ rctx.ctx.last_meta_type_info.header = rctx.ctx.last_meta_header
          /\ InCache(rctx.ctx, rctx.ctx.last_meta_type_info)
    /\ \A i \in DOMAIN rctx.ctx.owned_reading_type_infos :
          /\ rctx.ctx.owned_reading_type_infos[i].header \notin DOMAIN rctx.ctx.parsed_type_infos
          /\ rctx.ctx.owned_reading_type_infos[i].header # rctx.ctx.last_meta_header
    /\ \A p \in HeldTypeInfos : InCache(rctx.ctx, p) \/ InOverflow(rctx.ctx, p)
    /\ robs.op = "reset" =>
          rctx.ctx.owned_reading_type_infos = <<>> /\ rctx.ctx.reading_type_infos = <<>>

\* read_type_meta at the start of a definition, with the cache full and the
\* header neither the last one seen nor in the cache
CapOverflowRead ==
    /\ rctx.ctx.buffer.reader_index \in DefinitionStarts(rctx.ctx.buffer.mem, 0)
    /\ CapReadTypeMeta
    /\ Cardinality(DOMAIN rctx.ctx.parsed_type_infos) = k_max_parsed_num_type_defs
    /\ HeaderAhead \notin DOMAIN rctx.ctx.parsed_type_infos

\* the definition is parsed, also when an earlier occurrence of its header is
\* in the overflow list; the new TypeInfo goes to the end of the overflow list
\* and of reading_type_infos and is returned; cache and last-seen slot stay
CapOverflowStored ==
    CapOverflowRead =>
        /\ robs'.err = "ok"
        /\ robs'.val = ParsedTypeInfo(HeaderAhead)
        /\ rctx'.ctx.owned_reading_type_infos
              = Append(rctx.ctx.owned_reading_type_infos, robs'.val)
        /\ rctx'.ctx.reading_type_infos = Append(rctx.ctx.reading_type_infos, robs'.val)
        /\ rctx'.ctx.parsed_type_infos = rctx.ctx.parsed_type_infos
        /\ rctx'.ctx.has_last_meta_header = rctx.ctx.has_last_meta_header
        /\ rctx'.ctx.last_meta_header = rctx.ctx.last_meta_header
        /\ rctx'.ctx.last_meta_type_info = rctx.ctx.last_meta_type_info
        /\ rctx'.ctx.buffer.reader_index
              = rctx.ctx.buffer.reader_index + 1 + 8 + meta_size(HeaderAhead)

\* C23: the parsed-meta cache never holds more than k_max_parsed_num_type_defs
\* entries. A definition parsed while the cache is full is stored only in the
\* overflow list of the message: it is not indexed by its header, not put in
\* the last-seen slot, parsed again at a later occurrence of its header, and
\* gone with reading_type_infos at reset. The last-seen slot and the cache
\* point only to TypeInfos the cache owns, so every TypeInfo pointer held or
\* returned since the last reset is owned by the cache or the overflow list.
C23_CacheBound == [](CapState) /\ [][CapOverflowStored]_vars

\* the cache is full and the message has brought the same unknown header
\* twice: two TypeInfos for it are in the overflow list
C23_Witness ==
    /\ Cardinality(DOMAIN rctx.ctx.parsed_type_infos) = k_max_parsed_num_type_defs
    /\ Len(rctx.ctx.owned_reading_type_infos) = 2
    /\ rctx.ctx.owned_reading_type_infos[1] = rctx.ctx.owned_reading_type_infos[2]
    /\ rctx.ctx.reading_type_infos = rctx.ctx.owned_reading_type_infos
    /\ robs.err = "ok"

\* after the reset that followed an overflow the overflow list is empty
C23_WitnessReset ==
    /\ robs.op = "reset" /\ robs.messages = 2
    /\ Cardinality(DOMAIN rctx.ctx.parsed_type_infos) = k_max_parsed_num_type_defs
    /\ rctx.ctx.owned_reading_type_infos = <<>>


-----------------------------------------------------------------------------
(* shrink_buffer (SpecStream)                                                 *)

\* the bytes of the bound Buffer from reader_index to size
UnreadBytes(s) == SubSeq(s.bytes, Bound(s).reader_index + 1, Bound(s).size)

\* what read_to(length) returns when it needs no fill, and otherwise how
\* fill_buffer starts
ReadOutcome(s, length) ==
    IF StreamFills(s, "read_to", s.buffer, length)
    THEN [fills |-> TRUE, val |-> <<>>,
          err |-> fill_buffer_begin(s, StreamMin(s, "read_to", s.buffer, length)).res]
    ELSE [fills |-> FALSE,
          val |-> ForyInputStream_read_to(
                      view_fill_to_kept(s, s.buffer, Bound(s).reader_index + length), length).val,
          err |-> "ok"]

\* shrink_buffer moves the unread bytes to the front of data_ and may shrink
\* data_; it leaves writer_index alone when reader_index is 0
ShrinkBufferCompacts(writer_index_set) ==
    ShrinkBuffer =>
        /\ sio'.last = [op |-> "shrink_buffer", err |-> "ok"]
        /\ UnreadBytes(sio'.s) = UnreadBytes(sio.s)
        /\ sio'.s.src = sio.s.src
        /\ Bound(sio'.s).reader_index = 0
        /\ Bound(sio'.s).size = ForyInputStream_remaining_size(sio.s)
        /\ writer_index_set =>
              Bound(sio'.s).writer_index = ForyInputStream_remaining_size(sio.s)
        /\ sio'.s.buffer = sio.s.buffer
        /\ sio'.s.data[sio'.s.buffer] = "data_"
        /\ BLeq(sio'.s.cap, sio.s.cap)
        /\ BLeq(FromNat(sio.s.initial_buffer_size), sio'.s.cap)
        /\ BLeq(FromNat(ForyInputStream_remaining_size(sio.s)), sio'.s.cap)
        /\ sio'.s.cap # sio.s.cap =>
              /\ ~WLeqNat(sio.s.cap, sio.s.initial_buffer_size)
              /\ \/ ForyInputStream_remaining_size(sio.s) = 0
                 \/ BLeq(FromNat(4 * ForyInputStream_remaining_size(sio.s)), sio.s.cap)
        /\ \A length \in 0 .. MaxStreamArg :
              ReadOutcome(sio'.s, length) = ReadOutcome(sio.s, length)

\* C24: shrink_buffer leaves the unread bytes as they are, sets reader_index
\* to 0 and size and writer_index to the number of unread bytes, keeps data of
\* the bound Buffer on data_, never shrinks data_ below the initial capacity or
\* the number of unread bytes, shrinks it only when it is larger than the
\* initial capacity and no byte or at most a quarter of it is unread, and
\* leaves the outcome of every read as it was.
C24_ShrinkBufferCompacts == [][ShrinkBufferCompacts(TRUE)]_vars

\* the same, with writer_index set only when shrink_buffer is called with
\* reader_index > 0 or writer_index = size
ShrinkBufferCompactsSynced ==
    [][ShrinkBufferCompacts(Bound(sio.s).reader_index > 0
                            \/ Bound(sio.s).writer_index = Bound(sio.s).size)]_vars

\* shrink_buffer has moved one unread byte to the front and halved data_
ShrinkBufferShrunk ==
    /\ sio.used /\ sio.pc = "idle" /\ sio.last.op = "shrink_buffer"
    /\ sio.s.bytes = <<2>> /\ sio.s.cap = FromNat(2) /\ sio.s.initial_buffer_size = 1
    /\ Bound(sio.s).size = 1 /\ Bound(sio.s).writer_index = 1


-----------------------------------------------------------------------------
(* Buffer::grow and Buffer::reserve on the fields of a Buffer (buffer.h).     *)
(* size_, writer_index_ and reader_index_ are 32-bit words, so that buffers   *)
(* of 2 GiB and more are covered; the memory is described by                  *)
(*   data      where data_ points: "null", "caller", "heap" (malloc/realloc),   *)
(*             "vector" (wrapped_vector_->data()) or "stream" (stream_->data())*)
(*   copied    how many bytes the last reallocation carried over               *)
(*   vec_size  wrapped_vector_->size()                                         *)
(* A result is [b, out]: out is "ok", "abort" (FORY_CHECK(false) after a       *)
(* failed malloc or realloc), "throw" (vector::resize could not allocate) or   *)
(* "ub" (a store outside the allocation).                                      *)

\* Buffer::reserve(new_size); allocated: the allocation succeeds
Buffer_reserve(b, new_size, allocated) ==
    IF BLeq(new_size, b.size) THEN [b |-> b, out |-> "ok"]
    ELSE IF b.wrapped_vector
    THEN IF allocated
         THEN [b |-> [b EXCEPT !.vec_size = new_size, !.data = "vector",
                               !.copied = b.vec_size, !.size = new_size],
               out |-> "ok"]
         ELSE [b |-> b, out |-> "throw"]
    ELSE IF allocated
    THEN [b |-> [b EXCEPT !.own_data = TRUE, !.data = "heap",
                          !.copied = b.size, !.size = new_size],
          out |-> "ok"]
    ELSE [b |-> b, out |-> "abort"]

\* Buffer::grow(min_capacity): len and len * 2 are uint32_t, the rounding is
\* done in int64_t and reserve takes a uint32_t
Buffer_grow(b, min_capacity, allocated) ==
    LET len == BAdd(b.writer_index, min_capacity, 32)
    IN  IF BLeq(len, b.size) THEN [b |-> b, out |-> "ok"]
        ELSE Buffer_reserve(
                 b, Trunc(round_number_of_bytes_to_nearest_word(Shl(len, 1, 32)), 32),
                 allocated)

\* Buffer::increase_writer_index(diff): the sum is a uint32_t
Buffer_increase_writer_index(b, diff) ==
    IF BAdd(b.writer_index, diff, 32) = Bits(32) THEN [b |-> b, out |-> "abort"]
    ELSE [b |-> [b EXCEPT !.writer_index = BAdd(@, diff, 32)], out |-> "ok"]

\* Buffer::write_uint8 ... write_bytes: grow(n), a store of n bytes at
\* writer_index_ without a check, increase_writer_index(n)
Buffer_write(b, n, allocated) ==
    LET g == Buffer_grow(b, n, allocated)
    IN  IF g.out # "ok" THEN g
        ELSE IF ~BLeq(BAdd(g.b.writer_index, n, 64), g.b.size) THEN [b |-> g.b, out |-> "ub"]
        ELSE Buffer_increase_writer_index(g.b, n)

-----------------------------------------------------------------------------
(* SpecGrow: grow, reserve and writes on a Buffer of any kind and size        *)

MaxGrowOps == 2

\* 0, 1, 8, 16, 2^30, 2^31 - 8, 2^31, 2^32 - 8, 2^32 - 1
GrowSizes == {{}, {0}, {3}, {4}, {30}, 3 .. 30, {31}, 3 .. 31, 0 .. 31}

\* the lengths of the fixed-width writes, and lengths of write_bytes
GrowLengths == {{0}, {3}, {0, 3}, {4}, {31}, 0 .. 31}

\* Buffer(), Buffer(data, size, own_data), Buffer(vec), Buffer(stream), and
\* what writes make of them: writer_index <= size, and writer_index below
\* UINT32_MAX unless the constructor took it from a vector or stream that large
GrowBuffers ==
    {b \in {[size |-> size, writer_index |-> writer_index, reader_index |-> {},
             own_data |-> kind = "owned", wrapped_vector |-> kind = "vector",
             stream |-> kind = "stream",
             data |-> CASE kind = "owned" -> "heap"
                        [] kind = "caller" -> IF size = {} THEN "null" ELSE "caller"
                        [] OTHER -> kind,
             copied |-> {}, vec_size |-> IF kind = "vector" THEN size ELSE {}] :
               kind \in {"owned", "caller", "vector", "stream"},
               size \in GrowSizes, writer_index \in GrowSizes} :
        /\ BLeq(b.writer_index, b.size)
        /\ b.writer_index = Bits(32) => b.wrapped_vector \/ b.stream}

InitGrow ==
    /\ \E b \in GrowBuffers : wctx = [used |-> TRUE, b |-> b, out |-> "ok", ops |-> 0]
    /\ wobs = [used |-> TRUE, op |-> "init", arg |-> {}, before |-> <<>>]
    /\ codec = Unused /\ rctx = Unused /\ robs = Unused /\ sio = Unused

AfterGrow(op, arg, r) ==
    /\ wctx.used /\ wctx.out = "ok" /\ wctx.ops < MaxGrowOps
    /\ wctx' = [used |-> TRUE, b |-> r.b, out |-> r.out, ops |-> wctx.ops + 1]
    /\ wobs' = [used |-> TRUE, op |-> op, arg |-> arg, before |-> wctx.b]
    /\ UNCHANGED <<codec, rctx, robs, sio>>

Grow ==
    \E min_capacity \in GrowLengths, allocated \in BOOLEAN :
        AfterGrow("grow", min_capacity, Buffer_grow(wctx.b, min_capacity, allocated))

Reserve ==
    \E new_size \in GrowSizes, allocated \in BOOLEAN :
        AfterGrow("reserve", new_size, Buffer_reserve(wctx.b, new_size, allocated))

Write ==
    \E n \in GrowLengths, allocated \in BOOLEAN :
        AfterGrow("write", n, Buffer_write(wctx.b, n, allocated))

NextGrow == Grow \/ Reserve \/ Write

SpecGrow == InitGrow /\ [][NextGrow]_vars

\* grow(n) has returned on a Buffer that is not bound to a stream
GrowReturned == wobs.op = "grow" /\ wctx.out = "ok" /\ ~wobs.before.stream

\* writer_index + n, not truncated
GrowNeeded == BAdd(wobs.before.writer_index, wobs.arg, 64)

\* what the statement says of a grow(n) that has returned
GrowCovers ==
    /\ BLeq(GrowNeeded, wctx.b.size)
    /\ wctx.b.writer_index = wobs.before.writer_index
    /\ wctx.b.reader_index = wobs.before.reader_index
    /\ IF wctx.b.size = wobs.before.size THEN wctx.b = wobs.before
       ELSE /\ wctx.b.size = round_number_of_bytes_to_nearest_word(Shl(GrowNeeded, 1, 64))
            /\ BLeq(GrowNeeded, wctx.b.size)
            /\ wctx.b.copied = wobs.before.size
            /\ IF wobs.before.wrapped_vector
               THEN /\ wctx.b.vec_size = wctx.b.size /\ wctx.b.data = "vector"
                    /\ ~wctx.b.own_data
               ELSE wctx.b.own_data /\ wctx.b.data = "heap"

\* C25: for every writer_index and n, after grow(n) has returned on a Buffer
\* that is not bound to a stream, size >= writer_index + n (not truncated to
\* 32 bits), writer_index and reader_index are unchanged and the bytes below
\* the old size are carried over; when the Buffer grew, the new size is
\* 2 * (writer_index + n) rounded up to a multiple of 8, and a wrapped vector
\* has been resized to it and data read from it again.
C25_GrowCovers == GrowReturned => GrowCovers

\* 2 * (writer_index + n) + 7 < 2^32
GrowFits == LtPow2(BAdd(Shl(GrowNeeded, 1, 64), {0, 1, 2}, 64), 32)

\* the statement for the calls in which no 32-bit operation of grow wraps
GrowCoversBelowWrap == (GrowReturned /\ GrowFits) => GrowCovers

\* a grow that wrapped is followed by a store outside the allocation
GrowWrappedStore ==
    /\ wobs.op = "write" /\ wctx.out = "ub" /\ ~wobs.before.stream
    /\ wobs.before.size = {31} /\ wobs.before.writer_index = {31} /\ wobs.arg = {0}

\* C26: on a Buffer bound to a stream, grow, reserve and the writes allocate
\* nothing: the Buffer does not come to own its data, and data and size stay
\* those of the stream.
C26_StreamBufferNeverGrows ==
    (wobs.op \in {"grow", "reserve", "write"} /\ wobs.before.stream /\ wctx.out = "ok") =>
        /\ ~wctx.b.own_data
        /\ wctx.b.data = "stream"
        /\ wctx.b.size = wobs.before.size

\* a write on a Buffer bound to a stream has moved it to memory of its own
StreamBufferGrown ==
    /\ wobs.op = "write" /\ wobs.before.stream /\ wctx.out = "ok"
    /\ wctx.b.own_data /\ wctx.b.data = "heap" /\ wctx.b.stream


-----------------------------------------------------------------------------
(* Number strings and the other encodings of meta_string.cc                   *)

\* std::isdigit, std::isupper, std::islower, std::tolower, std::toupper on
\* ASCII
isdigit(c) == c >= 48 /\ c <= 57
isupper(c) == c >= 65 /\ c <= 90
islower(c) == c >= 97 /\ c <= 122
tolower(c) == IF isupper(c) THEN c + 32 ELSE c
toupper(c) == IF islower(c) THEN c - 32 ELSE c

\* is_number_string(input)
is_number_string(input) ==
    /\ input # <<>>
    /\ ~(input[1] = 45 /\ Len(input) = 1)
    /\ \A i \in (IF input[1] = 45 THEN 2 ELSE 1) .. Len(input) : isdigit(input[i])

\* is_all_zero(bytes)
is_all_zero(bytes) == \A i \in DOMAIN bytes : bytes[i] = 0

\* while (bytes.size() > min && bytes[0] == byte) bytes.erase(bytes.begin())
RECURSIVE erase_leading(_, _, _)
erase_leading(bytes, byte, min) ==
    IF Len(bytes) > min /\ bytes[1] = byte THEN erase_leading(Tail(bytes), byte, min)
    ELSE bytes

\* encode_decimal_to_bytes: the carry that the inner loop brings to
\* magnitude[i - 1] (i = Len: the digit; i = 0: the carry left after the loop)
RECURSIVE decimal_carry(_, _, _)
decimal_carry(magnitude, i, digit) ==
    IF i = Len(magnitude) THEN digit
    ELSE (magnitude[i + 1] * 10 + decimal_carry(magnitude, i + 1, digit)) \div 256

\* while (carry != 0) insert carry & 0xFF at the front, carry >>= 8
RECURSIVE carry_bytes(_)
carry_bytes(carry) ==
    IF carry = 0 THEN <<>> ELSE carry_bytes(carry \div 256) \o <<carry % 256>>

\* encode_decimal_to_bytes: the body of the loop over the digits, from
\* digits[k] on
RECURSIVE decimal_from(_, _, _)
decimal_from(digits, k, magnitude) ==
    IF k > Len(digits) THEN magnitude
    ELSE decimal_from(
             digits, k + 1,
             carry_bytes(decimal_carry(magnitude, 0, digits[k] - 48))
             \o [i \in 1 .. Len(magnitude) |->
                    (magnitude[i] * 10 + decimal_carry(magnitude, i, digits[k] - 48)) % 256])

\* encode_decimal_to_bytes(digits): the magnitude, big-endian
encode_decimal_to_bytes(digits) == erase_leading(decimal_from(digits, 1, <<0>>), 0, 1)

\* b = ~b for every byte
complement(bytes) == [i \in 1 .. Len(bytes) |-> 255 - bytes[i]]

\* the loop that adds 1: the carry brought to bytes[i - 1]
RECURSIVE increment_carry(_, _)
increment_carry(bytes, i) ==
    IF i = Len(bytes) THEN 1
    ELSE (bytes[i + 1] + increment_carry(bytes, i + 1)) \div 256

increment(bytes) ==
    [i \in 1 .. Len(bytes) |-> (bytes[i] + increment_carry(bytes, i)) % 256]

\* while (size > 1 && magnitude[0] == 0xFF && (magnitude[1] & 0x80) != 0) erase
RECURSIVE erase_sign_bytes(_)
erase_sign_bytes(magnitude) ==
    IF Len(magnitude) > 1 /\ magnitude[1] = 255 /\ magnitude[2] >= 128
    THEN erase_sign_bytes(Tail(magnitude))
    ELSE magnitude

\* enum class MetaExtendedEncoding: the tag in front of an EXTENDED payload
MetaExtendedEncoding == [UTF8 |-> 0, NUMBER_STRING |-> 1]

\* encode_number_string: the magnitude of a negative number, negated
negated(magnitude) ==
    erase_sign_bytes((IF increment_carry(complement(magnitude), 0) # 0 THEN <<255>> ELSE <<>>)
                     \o increment(complement(magnitude)))

\* encode_number_string(input)
encode_number_string(input) ==
    LET magnitude == encode_decimal_to_bytes(IF input[1] = 45 THEN Tail(input) ELSE input)
    IN  <<MetaExtendedEncoding.NUMBER_STRING>>
        \o (IF input[1] = 45 /\ ~is_all_zero(magnitude) THEN negated(magnitude)
            ELSE IF magnitude[1] >= 128 THEN <<0>> \o magnitude
            ELSE magnitude)

\* decode_number_string: the remainder after the inner loop has divided
\* temp[0 .. i) by 10
RECURSIVE remainder(_, _)
remainder(temp, i) ==
    IF i = 0 THEN 0 ELSE (remainder(temp, i - 1) * 256 + temp[i]) % 10

\* decode_number_string: the digits of temp, most significant first
RECURSIVE decimal_digits(_)
decimal_digits(temp) ==
    IF temp = <<>> THEN <<>>
    ELSE decimal_digits(
             erase_leading([i \in 1 .. Len(temp) |->
                               (remainder(temp, i - 1) * 256 + temp[i]) \div 10], 0, 0))
         \o <<48 + remainder(temp, Len(temp))>>

\* decode_number_string(data, len)
decode_number_string(data) ==
    IF Len(data) = 0 THEN <<>>
    ELSE LET bytes == erase_leading(IF data[1] >= 128 THEN increment(complement(data))
                                    ELSE data, 0, 1)
         IN  IF is_all_zero(bytes) THEN <<48>>
             ELSE (IF data[1] >= 128 THEN <<45>> ELSE <<>>) \o decimal_digits(bytes)

\* encode_extended_utf8(input)
encode_extended_utf8(input) == <<MetaExtendedEncoding.UTF8>> \o input


\* MetaStringEncoder::lower_upper_digit_special_char_value(c)
lower_upper_digit_special_char_value(c, special_char1, special_char2) ==
    IF islower(c) THEN c - 97
    ELSE IF isupper(c) THEN c - 65 + 26
    ELSE IF isdigit(c) THEN c - 48 + 52
    ELSE IF c = special_char1 THEN 62
    ELSE IF c = special_char2 THEN 63
    ELSE -1

\* encode_lower_upper_digit_special: whether the loops set bit current_bit
lower_upper_digit_special_bit(input, current_bit, special_char1, special_char2) ==
    /\ current_bit >= 1 /\ current_bit <= 6 * Len(input)
    /\ IntBit(lower_upper_digit_special_char_value(input[((current_bit - 1) \div 6) + 1],
                                                   special_char1, special_char2),
              5 - ((current_bit - 1) % 6))

\* MetaStringEncoder::encode_lower_upper_digit_special(input)
encode_lower_upper_digit_special(input, special_char1, special_char2) ==
    LET total_bits == Len(input) * 6 + 1
        byte_length == (total_bits + 7) \div 8
    IN  [k \in 1 .. byte_length |->
            (IF k = 1 /\ byte_length * 8 >= total_bits + 6 THEN 128 ELSE 0)
          + (IF lower_upper_digit_special_bit(input, 8 * k - 8, special_char1, special_char2)
             THEN 128 ELSE 0)
          + (IF lower_upper_digit_special_bit(input, 8 * k - 7, special_char1, special_char2)
             THEN 64 ELSE 0)
          + (IF lower_upper_digit_special_bit(input, 8 * k - 6, special_char1, special_char2)
             THEN 32 ELSE 0)
          + (IF lower_upper_digit_special_bit(input, 8 * k - 5, special_char1, special_char2)
             THEN 16 ELSE 0)
          + (IF lower_upper_digit_special_bit(input, 8 * k - 4, special_char1, special_char2)
             THEN 8 ELSE 0)
          + (IF lower_upper_digit_special_bit(input, 8 * k - 3, special_char1, special_char2)
             THEN 4 ELSE 0)
          + (IF lower_upper_digit_special_bit(input, 8 * k - 2, special_char1, special_char2)
             THEN 2 ELSE 0)
          + (IF lower_upper_digit_special_bit(input, 8 * k - 1, special_char1, special_char2)
             THEN 1 ELSE 0)]

\* MetaStringEncoder::encode_first_to_lower_special(input)
encode_first_to_lower_special(input) ==
    IF input = <<>> THEN encode_lower_special(<<>>)
    ELSE encode_lower_special([input EXCEPT ![1] = tolower(@)])

\* encode_all_to_lower_special: the string with '|' and the lower-case letter
\* for every upper-case letter
RECURSIVE escape_upper(_)
escape_upper(input) ==
    IF input = <<>> THEN <<>>
    ELSE (IF isupper(Head(input)) THEN <<124, tolower(Head(input))>> ELSE <<Head(input)>>)
         \o escape_upper(Tail(input))

\* MetaStringEncoder::encode_all_to_lower_special(input)
encode_all_to_lower_special(input) == encode_lower_special(escape_upper(input))

\* MetaStringEncoder::compute_statistics(input)
compute_statistics(input, special_char1, special_char2) ==
    [digit_count |-> Cardinality({i \in DOMAIN input : isdigit(input[i])}),
     upper_count |-> Cardinality({i \in DOMAIN input : isupper(input[i])}),
     can_lower_upper_digit_special_encoded |->
         \A i \in DOMAIN input :
             \/ islower(input[i]) \/ isupper(input[i]) \/ isdigit(input[i])
             \/ input[i] = special_char1 \/ input[i] = special_char2,
     can_lower_special_encoded |->
         \A i \in DOMAIN input : islower(input[i]) \/ input[i] \in {46, 95, 36, 124}]

\* compute_encoding: allow(e)
allow(encodings, e) == encodings = {} \/ e \in encodings

\* compute_encoding, once the statistics are there
compute_encoding_stats(input, encodings, stats) ==
    IF stats.can_lower_special_encoded /\ allow(encodings, "LOWER_SPECIAL")
    THEN "LOWER_SPECIAL"
    ELSE IF ~stats.can_lower_upper_digit_special_encoded THEN "EXTENDED"
    ELSE IF stats.digit_count # 0 /\ allow(encodings, "LOWER_UPPER_DIGIT_SPECIAL")
    THEN "LOWER_UPPER_DIGIT_SPECIAL"
    ELSE IF /\ stats.upper_count = 1 /\ input # <<>> /\ isupper(input[1])
            /\ allow(encodings, "FIRST_TO_LOWER_SPECIAL")
    THEN "FIRST_TO_LOWER_SPECIAL"
    ELSE IF /\ (Len(input) + stats.upper_count) * 5 < Len(input) * 6
            /\ allow(encodings, "ALL_TO_LOWER_SPECIAL")
    THEN "ALL_TO_LOWER_SPECIAL"
    ELSE IF allow(encodings, "LOWER_UPPER_DIGIT_SPECIAL") THEN "LOWER_UPPER_DIGIT_SPECIAL"
    ELSE "EXTENDED"

\* MetaStringEncoder::compute_encoding(input, encodings); the encodings are a
\* set, the function only tests membership
compute_encoding(input, encodings, special_char1, special_char2) ==
    IF is_number_string(input) THEN "EXTENDED"
    ELSE compute_encoding_stats(input, encodings,
                                compute_statistics(input, special_char1, special_char2))

\* encode: the switch on the computed encoding
encode_as(input, encoding, special_char1, special_char2) ==
    [encoding |-> encoding,
     bytes |-> CASE encoding = "LOWER_SPECIAL" -> encode_lower_special(input)
                 [] encoding = "LOWER_UPPER_DIGIT_SPECIAL" ->
                        encode_lower_upper_digit_special(input, special_char1, special_char2)
                 [] encoding = "FIRST_TO_LOWER_SPECIAL" -> encode_first_to_lower_special(input)
                 [] encoding = "ALL_TO_LOWER_SPECIAL" -> encode_all_to_lower_special(input)
                 [] OTHER -> encode_extended_utf8(input)]

\* MetaStringEncoder::encode(input, encodings)
MetaStringEncoder_encode(input, encodings, special_char1, special_char2) ==
    IF input = <<>> THEN [encoding |-> "EXTENDED", bytes |-> <<>>]
    ELSE IF is_number_string(input)
    THEN [encoding |-> "EXTENDED", bytes |-> encode_number_string(input)]
    ELSE IF \E i \in DOMAIN input : input[i] > 127
    THEN [encoding |-> "EXTENDED", bytes |-> encode_extended_utf8(input)]
    ELSE encode_as(input, compute_encoding(input, encodings, special_char1, special_char2),
                   special_char1, special_char2)

\* MetaStringDecoder::decode_lower_upper_digit_special_char(value)
decode_lower_upper_digit_special_char(value, special_char1, special_char2) ==
    IF value <= 25 THEN [val |-> 97 + value, err |-> "ok"]
    ELSE IF value <= 51 THEN [val |-> 65 + (value - 26), err |-> "ok"]
    ELSE IF value <= 61 THEN [val |-> 48 + (value - 52), err |-> "ok"]
    ELSE CASE value = 62 -> [val |-> special_char1, err |-> "ok"]
           [] value = 63 -> [val |-> special_char2, err |-> "ok"]
           [] OTHER -> [val |-> 0, err |-> "EncodeError"]

\* decode_lower_upper_digit_special: char_value at bit_index
lower_upper_digit_special_char_at(data, bit_index) ==
    LET byte_index == bit_index \div 8
        intra_byte_index == bit_index % 8
        two_bytes == data[byte_index + 1] * 256
                     + (IF byte_index + 1 < Len(data) THEN data[byte_index + 2] ELSE 0)
    IN  IF intra_byte_index > 2
        THEN (two_bytes \div (2 ^ (10 - intra_byte_index))) % 64
        ELSE (data[byte_index + 1] \div (2 ^ (2 - intra_byte_index))) % 64

RECURSIVE decode_lower_upper_digit_special_from(_, _, _, _, _)
\* decode_lower_upper_digit_special: the while loop, from bit_index on
decode_lower_upper_digit_special_from(data, bit_index, decoded, special_char1, special_char2) ==
    IF ~(/\ bit_index + 6 <= Len(data) * 8
         /\ ~(data[1] >= 128 /\ bit_index + 2 * 6 > Len(data) * 8))
    THEN [val |-> decoded, err |-> "ok"]
    ELSE LET ch == decode_lower_upper_digit_special_char(
                       lower_upper_digit_special_char_at(data, bit_index),
                       special_char1, special_char2)
         IN  IF ch.err # "ok" THEN [val |-> <<>>, err |-> ch.err]
             ELSE decode_lower_upper_digit_special_from(
                      data, bit_index + 6, Append(decoded, ch.val),
                      special_char1, special_char2)

\* MetaStringDecoder::decode_lower_upper_digit_special(data, len)
decode_lower_upper_digit_special(data, special_char1, special_char2) ==
    IF Len(data) = 0 THEN [val |-> <<>>, err |-> "ok"]
    ELSE decode_lower_upper_digit_special_from(data, 1, <<>>, special_char1, special_char2)

\* MetaStringDecoder::decode_rep_first_lower_special, base being what
\* decode_lower_special returned
decode_rep_first_lower_special(base) ==
    IF base.err # "ok" \/ base.val = <<>> THEN base
    ELSE [val |-> [base.val EXCEPT ![1] = toupper(@)], err |-> "ok"]

\* decode_rep_all_to_lower_special: the loop over base from index i on
RECURSIVE unescape_upper(_, _)
unescape_upper(base, i) ==
    IF i > Len(base) THEN <<>>
    ELSE IF base[i] = 124
    THEN (IF i + 1 <= Len(base) THEN <<toupper(base[i + 1])>> ELSE <<>>)
         \o unescape_upper(base, i + 2)
    ELSE <<base[i]>> \o unescape_upper(base, i + 1)

\* MetaStringDecoder::decode_rep_all_to_lower_special, base being what
\* decode_lower_special returned
decode_rep_all_to_lower_special(base) ==
    IF base.err # "ok" THEN base ELSE [val |-> unescape_upper(base.val, 1), err |-> "ok"]

\* decode: the EXTENDED case
decode_extended(data) ==
    IF data[1] = MetaExtendedEncoding.UTF8 THEN [val |-> Tail(data), err |-> "ok"]
    ELSE IF data[1] = MetaExtendedEncoding.NUMBER_STRING
    THEN [val |-> decode_number_string(Tail(data)), err |-> "ok"]
    ELSE [val |-> <<>>, err |-> "EncodingError"]

\* MetaStringDecoder::decode(data, len, encoding)
MetaStringDecoder_decode(data, encoding, special_char1, special_char2) ==
    IF Len(data) = 0 THEN [val |-> <<>>, err |-> "ok"]
    ELSE CASE encoding = "LOWER_SPECIAL" -> decode_lower_special(data)
           [] encoding = "LOWER_UPPER_DIGIT_SPECIAL" ->
                  decode_lower_upper_digit_special(data, special_char1, special_char2)
           [] encoding = "FIRST_TO_LOWER_SPECIAL" ->
                  decode_rep_first_lower_special(decode_lower_special(data))
           [] encoding = "ALL_TO_LOWER_SPECIAL" ->
                  decode_rep_all_to_lower_special(decode_lower_special(data))
           [] encoding = "EXTENDED" -> decode_extended(data)
           [] OTHER -> [val |-> data, err |-> "ok"]


-----------------------------------------------------------------------------
(* SpecMeta: MetaStringEncoder::encode, then MetaStringDecoder::decode of     *)
(* the bytes and encoding it returned, on number strings and on strings of    *)
(* letters, digits and punctuation, for several pairs of special characters   *)
(* and several lists of allowed encodings.                                    *)

MaxNumberLen == 3    \* digits of the number strings drawn from NumberDigits
MaxMetaLen == 6      \* characters of the other strings

\* 0 1 2 8 9
NumberDigits == {48, 49, 50, 56, 57}

\* every string of up to MaxNumberLen of these digits, with and without '-',
\* and the numbers around the powers of 256: 127, 128, 129, 255, 256, 32767,
\* 32768, 32769, 65535, 65536, with and without '-'
NumberStrings ==
    LET digits == UNION {[1 .. n -> NumberDigits] : n \in 1 .. MaxNumberLen}
                  \cup {<<49, 50, 55>>, <<49, 50, 56>>, <<49, 50, 57>>, <<50, 53, 53>>,
                        <<50, 53, 54>>, <<51, 50, 55, 54, 55>>, <<51, 50, 55, 54, 56>>,
                        <<51, 50, 55, 54, 57>>, <<54, 53, 53, 51, 53>>, <<54, 53, 53, 51, 54>>}
    IN  digits \cup {<<45>> \o d : d \in digits}

\* B 1 . _ $ | -
MetaChars == {66, 49, 46, 95, 36, 124, 45}

\* strings of 'a' in which up to two positions hold a character of MetaChars
MetaStrings ==
    UNION {{[i \in 1 .. n |-> IF i = at1 THEN c1 ELSE IF i = at2 THEN c2 ELSE 97] :
               at1 \in 0 .. n, at2 \in 0 .. n, c1 \in MetaChars, c2 \in MetaChars} :
           n \in 1 .. MaxMetaLen}

\* the special characters of the namespace and of the type-name encoder, and
\* two pairs of other characters
SpecialChars == {<<46, 95>>, <<36, 95>>, <<45, 95>>, <<124, 95>>}

\* allowed encodings: none given (every encoding allowed), those of the
\* namespace and of the type-name encoder, and two lists without
\* LOWER_UPPER_DIGIT_SPECIAL
AllowedEncodings ==
    {{},
     {"EXTENDED", "ALL_TO_LOWER_SPECIAL", "LOWER_UPPER_DIGIT_SPECIAL"},
     {"EXTENDED", "LOWER_UPPER_DIGIT_SPECIAL", "FIRST_TO_LOWER_SPECIAL", "ALL_TO_LOWER_SPECIAL"},
     {"EXTENDED", "LOWER_SPECIAL", "FIRST_TO_LOWER_SPECIAL"},
     {"ALL_TO_LOWER_SPECIAL"}}

InitMeta ==
    /\ \/ \E str \in NumberStrings :
             codec = [op |-> "input", str |-> str, encodings |-> {},
                      special_char1 |-> 46, special_char2 |-> 95]
       \/ \E str \in MetaStrings, special \in SpecialChars, encodings \in AllowedEncodings :
             codec = [op |-> "input", str |-> str, encodings |-> encodings,
                      special_char1 |-> special[1], special_char2 |-> special[2]]
    /\ wctx = Unused /\ wobs = Unused /\ rctx = Unused /\ robs = Unused /\ sio = Unused

\* the decoder is constructed with the special characters of the encoder
Decoded(c, encoded) ==
    [op |-> "decode", str |-> c.str, encodings |-> c.encodings,
     special_char1 |-> c.special_char1, special_char2 |-> c.special_char2,
     encoded |-> encoded,
     decoded |-> MetaStringDecoder_decode(encoded.bytes, encoded.encoding,
                                          c.special_char1, c.special_char2)]

EncodeDecode ==
    /\ codec.op = "input"
    /\ codec' = Decoded(codec, MetaStringEncoder_encode(codec.str, codec.encodings,
                                                        codec.special_char1,
                                                        codec.special_char2))
    /\ UNCHANGED <<wctx, wobs, rctx, robs, sio>>

NextMeta == EncodeDecode

SpecMeta == InitMeta /\ [][NextMeta]_vars

\* the number a number string denotes
RECURSIVE DecimalValue(_)
DecimalValue(digits) ==
    IF digits = <<>> THEN 0
    ELSE 10 * DecimalValue(SubSeq(digits, 1, Len(digits) - 1)) + (digits[Len(digits)] - 48)

NumberValue(str) ==
    IF str[1] = 45 THEN 0 - DecimalValue(Tail(str)) ELSE DecimalValue(str)

\* the least number of bytes in which v fits as a two's-complement integer
RECURSIVE TwosComplementLen(_, _)
TwosComplementLen(v, n) ==
    IF v >= 0 - 2 ^ (8 * n - 1) /\ v < 2 ^ (8 * n - 1) THEN n ELSE TwosComplementLen(v, n + 1)

\* v as a two's-complement integer of n bytes, big-endian
TwosComplement(v, n) ==
    [i \in 1 .. n |-> ((IF v < 0 THEN v + 2 ^ (8 * n) ELSE v) \div 2 ^ (8 * (n - i))) % 256]

\* a number string has been encoded and decoded
NumberDecoded == codec.op = "decode" /\ is_number_string(codec.str)

\* what the statement says of it
NumberRoundTrip ==
    /\ codec.encoded.encoding = "EXTENDED"
    /\ codec.encoded.bytes
          = <<MetaExtendedEncoding.NUMBER_STRING>>
            \o TwosComplement(NumberValue(codec.str),
                              TwosComplementLen(NumberValue(codec.str), 1))
    /\ (codec.encoded.bytes[2] >= 128) = (NumberValue(codec.str) < 0)
    /\ codec.decoded = [val |-> codec.str, err |-> "ok"]

\* C27: for every number string (digits, with or without '-', with leading
\* zeros, "-0", negative numbers of every magnitude), encode returns EXTENDED
\* with the number as the shortest sign-extended two's-complement big-endian
\* integer, whose top bit is the sign, and decode returns the string.
C27_NumberStringRoundTrip == NumberDecoded => NumberRoundTrip

\* the decimal numeral of the number: no '-' before 0, no leading zero
Canonical(str) ==
    /\ ~(str[1] = 48 /\ Len(str) > 1)
    /\ ~(str[1] = 45 /\ str[2] = 48)

\* the statement for the canonical numerals of the numbers >= 0
NumberRoundTripNonNegative ==
    (NumberDecoded /\ Canonical(codec.str) /\ codec.str[1] # 45) => NumberRoundTrip

\* for every number string, the number is kept if it is >= 0
NumberKeptNonNegative ==
    (NumberDecoded /\ NumberValue(codec.str) >= 0) =>
        /\ codec.decoded.err = "ok"
        /\ is_number_string(codec.decoded.val)
        /\ NumberValue(codec.decoded.val) = NumberValue(codec.str)

\* and if it is < 0, when its magnitude is at most half of the power of 256
\* above it
NumberKeptNegative ==
    (NumberDecoded /\ NumberValue(codec.str) < 0
        /\ \E n \in 1 .. 3 : /\ 0 - NumberValue(codec.str) <= 2 ^ (8 * n - 1)
                             /\ 0 - NumberValue(codec.str) >= 2 ^ (8 * (n - 1))) =>
        NumberRoundTrip \/ ~Canonical(codec.str)

\* "-129" has been encoded as the one byte 7F and decoded as "127"
NumberSignLost ==
    /\ codec.op = "decode" /\ codec.str = <<45, 49, 50, 57>>
    /\ codec.encoded.bytes = <<MetaExtendedEncoding.NUMBER_STRING, 127>>
    /\ codec.decoded = [val |-> <<49, 50, 55>>, err |-> "ok"]


\* a string that is not a number string has been encoded and decoded
MetaDecoded == codec.op = "decode" /\ ~is_number_string(codec.str)

\* the encoding is one of the allowed ones, or EXTENDED
EncodingAllowed ==
    codec.encoded.encoding = "EXTENDED" \/ allow(codec.encodings, codec.encoded.encoding)

\* every character of the string, rewritten as the encoding rewrites it, has a
\* code in the alphabet of the encoding
CharsHaveCodes ==
    CASE codec.encoded.encoding = "LOWER_SPECIAL" ->
             \A i \in DOMAIN codec.str : lower_special_char_value(codec.str[i]) >= 0
      [] codec.encoded.encoding = "LOWER_UPPER_DIGIT_SPECIAL" ->
             \A i \in DOMAIN codec.str :
                 lower_upper_digit_special_char_value(
                     codec.str[i], codec.special_char1, codec.special_char2) >= 0
      [] codec.encoded.encoding = "FIRST_TO_LOWER_SPECIAL" ->
             \A i \in DOMAIN codec.str :
                 lower_special_char_value(IF i = 1 THEN tolower(codec.str[i])
                                          ELSE codec.str[i]) >= 0
      [] codec.encoded.encoding = "ALL_TO_LOWER_SPECIAL" ->
             \A i \in DOMAIN codec.str : lower_special_char_value(tolower(codec.str[i])) >= 0
      [] OTHER -> TRUE

MetaRoundTrip == codec.decoded = [val |-> codec.str, err |-> "ok"]

\* ALL_TO_LOWER_SPECIAL where LOWER_UPPER_DIGIT_SPECIAL was allowed too
AllToLowerIsShorter ==
    (codec.encoded.encoding = "ALL_TO_LOWER_SPECIAL"
        /\ allow(codec.encodings, "LOWER_UPPER_DIGIT_SPECIAL")) =>
        /\ (Len(codec.str)
            + Cardinality({i \in DOMAIN codec.str : isupper(codec.str[i])})) * 5
              < Len(codec.str) * 6
        /\ \A i \in DOMAIN codec.str : ~isdigit(codec.str[i])

\* C29: for every pair of special characters, every list of allowed encodings
\* and every non-empty ASCII string that is not a number string, encode
\* chooses an allowed encoding or EXTENDED in which every character (after
\* the rewriting of FIRST_TO_LOWER_SPECIAL or ALL_TO_LOWER_SPECIAL) has a
\* code, and decode with the same special characters returns the string;
\* ALL_TO_LOWER_SPECIAL is chosen over LOWER_UPPER_DIGIT_SPECIAL only if
\* (len + upper_count) * 5 < len * 6 and the string has no digit.
C29_EncodingRoundTrip ==
    MetaDecoded => EncodingAllowed /\ CharsHaveCodes /\ MetaRoundTrip /\ AllToLowerIsShorter

\* the special characters are among . _ $, which LOWER_SPECIAL has too, and
\* LOWER_UPPER_DIGIT_SPECIAL is allowed: the encoders of namespaces and type
\* names
MetaConfigured ==
    /\ {codec.special_char1, codec.special_char2} \subseteq {46, 95, 36}
    /\ allow(codec.encodings, "LOWER_UPPER_DIGIT_SPECIAL")

\* the statement for these encoders
EncodingRoundTripConfigured ==
    (MetaDecoded /\ MetaConfigured) =>
        EncodingAllowed /\ CharsHaveCodes /\ MetaRoundTrip /\ AllToLowerIsShorter

\* a string with a digit was written in ALL_TO_LOWER_SPECIAL, the only allowed
\* encoding, and decode fails on the code of the digit
DigitWithoutCode ==
    /\ codec.op = "decode" /\ codec.encodings = {"ALL_TO_LOWER_SPECIAL"}
    /\ codec.encoded.encoding = "ALL_TO_LOWER_SPECIAL"
    /\ \E i \in DOMAIN codec.str : isdigit(codec.str[i])
    /\ codec.decoded.err = "EncodeError"


-----------------------------------------------------------------------------
(* read_var_uint32 on five continuation bytes, on SpecSio                     *)

\* the first five unread bytes all have the continuation bit 0x80
FiveContinuationBytes(rest) == Len(rest) >= 5 /\ \A i \in 1 .. 5 : rest[i] >= 128

\* read_var_uint32 has been applied to an input that starts with five
\* continuation bytes (data_ of the stream-backed buffer not dangling)
MalformedVarUint32(out) ==
    /\ sio.used /\ sio.op = "read_var_uint32"
    /\ FiveContinuationBytes(out.rest) /\ ~out.stale

Rejected(out) == out.err = "InvalidData" /\ out.to = out.from

\* what the bulk path makes of five bytes: the low 7 bits of each, the fifth
\* cut to the 4 bits that fit into a uint32
BulkValue(rest) ==
    UNION {{7 * (i - 1) + k : k \in ByteBits(rest[i]) \ {7}} : i \in 1 .. 5} \cap (0 .. 31)

Accepted(out) == out.err = "ok" /\ out.to = out.from + 5 /\ out.val = BulkValue(out.rest)

\* C28: read_var_uint32 on an input whose first five bytes all have the
\* continuation bit set fails with InvalidData and leaves reader_index where
\* it was, whether the buffer is in memory or stream-backed and however many
\* bytes follow; it never returns a value.
C28_MalformedVarUint32Rejected ==
    /\ MalformedVarUint32(sio.out.mem) => Rejected(sio.out.mem)
    /\ MalformedVarUint32(sio.out.str) => Rejected(sio.out.str)

\* what the two paths do: the byte-wise path rejects, the bulk path returns a
\* value and advances by five; an in-memory buffer always takes the bulk path
MalformedVarUint32Outcomes ==
    /\ MalformedVarUint32(sio.out.mem) => Accepted(sio.out.mem)
    /\ MalformedVarUint32(sio.out.str) => Rejected(sio.out.str) \/ Accepted(sio.out.str)

\* the same five continuation bytes, rejected from the stream and accepted
\* from memory
MalformedVarUint32Diverges ==
    /\ MalformedVarUint32(sio.out.mem) /\ MalformedVarUint32(sio.out.str)
    /\ sio.out.mem.rest = sio.out.str.rest
    /\ Accepted(sio.out.mem) /\ Rejected(sio.out.str)

\* five continuation bytes accepted from the stream, which had buffered them
MalformedVarUint32AcceptedFromStream ==
    MalformedVarUint32(sio.out.str) /\ Accepted(sio.out.str)


-----------------------------------------------------------------------------
(* The callers of put_var_uint32 / put_var_uint64: write_var_uint32,          *)
(* write_var_uint64 (buffer.h) and the VARINT32 / VARINT64 cases of           *)
(* write_primitive_sequence (pyfory.cc).  A store is recorded as the offset   *)
(* and the width in bytes of the word that is written.  A store that passes  *)
(* the end of the allocation is undefined behaviour: the process faults, or   *)
(* goes on with memory behind the allocation overwritten.                     *)

MaxSeqLen == 2    \* items of a sequence
MaxSeqOps == 2    \* writes applied in a row

\* int32 items whose zigzag encodings take 1, 2, 3, 4 and 5 bytes, and an item
\* that is not an int32
Int32Items == {0 .. 31, {6}, {13}, {20}, {31}, {32}}
\* int64 items whose zigzag encodings take 1, 3, 5, 8 and 9 bytes, and an item
\* that is not an int64
Int64Items == {{}, {13}, {27}, {54}, {63}, {64}}

SeqsOf(items) == UNION {[1 .. n -> items] : n \in 0 .. MaxSeqLen}

\* Buffers as allocate(size) and earlier writes leave them
SeqBuffers ==
    {[mem |-> Run(0, size), size |-> size, writer_index |-> writer_index] :
        size \in {0, 5, 9, 16}, writer_index \in {0, 3, 11}}

Store(offset, width) == [offset |-> offset, width |-> width]

\* the result of a write: the Buffer, the stores made, the return value
Stored(b, stores, ret) == [b |-> b, stores |-> stores, ret |-> ret]

\* Buffer::write_var_uint32 with its store
write_var_uint32_stored(g, p) ==
    Stored(increase_writer_index([g EXCEPT !.mem = p.data], p.len),
            {Store(g.writer_index, p.stored)}, 0)

write_var_uint32_store(g, value) ==
    write_var_uint32_stored(g, put_var_uint32(g.mem, g.writer_index, value))

\* Buffer::write_var_uint64 with its store
write_var_uint64_stored(g, p) ==
    Stored(increase_writer_index([g EXCEPT !.mem = p.data], p.len),
            {Store(g.writer_index, p.stored)}, 0)

write_var_uint64_store(g, value) ==
    write_var_uint64_stored(g, put_var_uint64(g.mem, g.writer_index, value))

\* py_long_to_integral_range<int32_t> / py_long_to_int64: the item fits
py_long_fits(item, w) == LtPow2(item, w)

RECURSIVE varint_loop(_, _, _, _, _, _)
\* offset += buffer->put_var_uint32/64(offset, zigzag), then the next item
varint_put(g, writer_index, items, i, stores, w, p) ==
    varint_loop([g EXCEPT !.mem = p.data, !.writer_index = @ + p.len],
                writer_index, items, i + 1,
                stores \cup {Store(g.writer_index, p.stored)}, w)

\* write_primitive_sequence, case VARINT32 (w = 32) / VARINT64 (w = 64): the
\* loop from item i on; g.writer_index stands for the local `offset`, and
\* writer_index for the Buffer's, which moves only after the loop
varint_loop(g, writer_index, items, i, stores, w) ==
    IF i > Len(items)
    THEN Stored(increase_writer_index([g EXCEPT !.writer_index = writer_index],
                                       g.writer_index - writer_index), stores, 0)
    ELSE IF ~py_long_fits(items[i], w)
    THEN Stored([g EXCEPT !.writer_index = writer_index], stores, -1)
    ELSE varint_put(g, writer_index, items, i, stores, w,
                    IF w = 32 THEN put_var_uint32(g.mem, g.writer_index, ZigZag(items[i], 32))
                    ELSE put_var_uint64(g.mem, g.writer_index, ZigZag(items[i], 64)))

\* std::numeric_limits<uint32_t>::max() / 5ULL and / 9ULL
MaxVarint32Items == 858993459
MaxVarint64Items == 477218588

\* write_primitive_sequence(items, size, buffer, type_id), type_id VARINT32 or
\* VARINT64
write_primitive_sequence(b, items, w, fill) ==
    IF Len(items) > (IF w = 32 THEN MaxVarint32Items ELSE MaxVarint64Items)
    THEN Stored(b, {}, -1)
    ELSE varint_loop(grow(b, Len(items) * (IF w = 32 THEN 5 ELSE 9), fill),
                     b.writer_index, items, 1, {}, w)

\* a store reaches past the end of the allocation
PastEnd(r) == \E s \in r.stores : s.offset + s.width > r.b.size

InitSeq ==
    /\ \E b \in SeqBuffers :
          b.writer_index <= b.size
          /\ wctx = [used |-> TRUE, b |-> b, ops |-> 0, out |-> "ok"]
    /\ wobs = [used |-> TRUE, op |-> "init", arg |-> <<>>, before |-> <<>>,
               stores |-> {}, ret |-> 0]
    /\ codec = Unused /\ rctx = Unused /\ robs = Unused /\ sio = Unused

MayWrite == wctx.used /\ wctx.out = "ok" /\ wctx.ops < MaxSeqOps

AfterSeq(op, arg, r) ==
    /\ \E out \in IF PastEnd(r) THEN {"fault", "overwritten"} ELSE {"ok"} :
          wctx' = [used |-> TRUE, b |-> r.b, ops |-> wctx.ops + 1, out |-> out]
    /\ wobs' = [used |-> TRUE, op |-> op, arg |-> arg, before |-> wctx.b,
                stores |-> r.stores, ret |-> r.ret]
    /\ UNCHANGED <<codec, rctx, robs, sio>>

WriteVarUint32 ==
    /\ MayWrite
    /\ \E item \in Int32Items \ {{32}}, fill \in JunkBytes :
          AfterSeq("write_var_uint32", <<ZigZag(item, 32)>>,
                   write_var_uint32_store(grow(wctx.b, 8, fill), ZigZag(item, 32)))

WriteVarUint64 ==
    /\ MayWrite
    /\ \E item \in Int64Items \ {{64}}, fill \in JunkBytes :
          AfterSeq("write_var_uint64", <<ZigZag(item, 64)>>,
                   write_var_uint64_store(grow(wctx.b, 9, fill), ZigZag(item, 64)))

WriteVarint32Sequence ==
    /\ MayWrite
    /\ \E items \in SeqsOf(Int32Items), fill \in JunkBytes :
          AfterSeq("VARINT32", items, write_primitive_sequence(wctx.b, items, 32, fill))

WriteVarint64Sequence ==
    /\ MayWrite
    /\ \E items \in SeqsOf(Int64Items), fill \in JunkBytes :
          AfterSeq("VARINT64", items, write_primitive_sequence(wctx.b, items, 64, fill))

NextSeq == WriteVarUint32 \/ WriteVarUint64 \/ WriteVarint32Sequence \/ WriteVarint64Sequence

SpecSeq == InitSeq /\ [][NextSeq]_vars

-----------------------------------------------------------------------------
(* Properties of the stores *)

SeqWritten == wobs.used /\ wobs.op # "init"

\* every store lies inside [0, size)
StoresInside == \A s \in wobs.stores : s.offset + s.width <= wctx.b.size

\* C30: every store of put_var_uint32 and put_var_uint64, whose words can be
\* wider than the encoded length, lies inside [0, size) of the Buffer, for
\* write_var_uint32, write_var_uint64 and the VARINT32 / VARINT64 sequence
\* writers that grow once by 5 or 9 bytes per item, for every number of items
\* and every item.
C30_StoresInBounds == SeqWritten => StoresInside

\* the statement for all callers but the VARINT32 sequence writer
StoresInBoundsOthers == (SeqWritten /\ wobs.op # "VARINT32") => StoresInside

\* the VARINT32 sequence writer: a store passes the end only by the width of
\* the last item's word, at most 3 bytes, when that item takes 5 bytes and
\* grow found the Buffer large enough
StoresOfVarint32Sequence ==
    (SeqWritten /\ wobs.op = "VARINT32" /\ ~StoresInside) =>
        /\ wctx.b.size = wobs.before.size
        /\ \A s \in wobs.stores :
              s.offset + s.width > wctx.b.size =>
                  /\ s.width = 8 /\ s.offset + 5 <= wctx.b.size
                  /\ s.offset + s.width <= wctx.b.size + 3
                  /\ \A t \in wobs.stores : t.offset <= s.offset

\* the encoded bytes themselves are inside the Buffer, and writer_index moves
\* by their number
EncodedInside ==
    (SeqWritten /\ wobs.ret = 0) =>
        /\ wctx.b.writer_index <= wctx.b.size
        /\ wctx.b.writer_index >= wobs.before.writer_index
        /\ Cardinality(wobs.stores) = Len(wobs.arg)

\* a VARINT32 sequence whose last item took 5 bytes, in a Buffer that had
\* room for 5 bytes per item: the 8-byte word of the last item ends behind
\* the allocation
StorePastEnd ==
    /\ SeqWritten /\ wobs.op = "VARINT32" /\ wobs.ret = 0
    /\ wctx.b.size = wobs.before.size
    /\ \E s \in wobs.stores : s.offset + 8 > wctx.b.size /\ s.width = 8

=============================================================================
